---------------------------- MODULE Spec2Model ----------------------------
(***************************************************************************)
(* The tool-calling orchestration loop of cli-ai: LLMManager.generate     *)
(* (src/cli_ai/llm/manager.py) driving one GroqProvider                    *)
(* (src/cli_ai/llm/providers/groq_provider.py) and a tool handler.         *)
(*                                                                         *)
(* A Python str is a sequence of one-character strings.  Python None is    *)
(* the one-token sequence None, which no str can equal.  Every await of    *)
(* the coroutine is split into the step that starts the awaited call and   *)
(* the steps by which that call returns or raises.                         *)
(*                                                                         *)
(* Beside the loop, each on its own: the output normalizer, the tool       *)
(* executor, GroqProvider's wire translation and client life cycle, the    *)
(* configuration file (src/cli_ai/config_file.py) and the walk of          *)
(* grep_files (src/cli_ai/tools.py).                                       *)
(***************************************************************************)
EXTENDS Integers, Sequences, FiniteSets, TLC

\* ------------------------------------------------------------------ bounds
MaxRounds == 2
MaxCalls == 2

\* the pieces a text handed to _clean_command is made of, at most
MaxPieces == 3

\* the times _clean_command is applied to its own output, at most
MaxApplications == 2

\* the operations applied to one provider, at most
MaxOps == 4

\* the entries of a directory listing that are drawn freely, at most
MaxEntries == 2

\* the directories nested in one another under a directory listed, at most
MaxLevels == 4

\* ----------------------------------------------------------------- strings
None == <<"None">>

ErrorPrefix == <<"#", " ", "E", "r", "r", "o", "r", ":", " ">>

FinalErrorPrefix == <<"#", " ", "E", "r", "r", "o", "r", " ", "a", "f", "t", "e", "r", " ", "m", "a", "x", " ", "i", "t", "e", "r", "a", "t", "i", "o", "n", "s", ":", " ">>

ToolErrorPrefix == <<"E", "r", "r", "o", "r", ":", " ">>

NotAvailableSuffix == <<" ", "p", "r", "o", "v", "i", "d", "e", "r", " ", "n", "o", "t", " ", "a", "v", "a", "i", "l", "a", "b", "l", "e">>

GROQ == <<"g", "r", "o", "q">>

NotInitialized == <<"G", "r", "o", "q", " ", "c", "l", "i", "e", "n", "t", " ", "n", "o", "t", " ", "i", "n", "i", "t", "i", "a", "l", "i", "z", "e", "d", ".", " ", "C", "a", "l", "l", " ", "i", "n", "i", "t", "i", "a", "l", "i", "z", "e", "(", ")", " ", "f", "i", "r", "s", "t", ".">>

FinalPrompt == <<"Y", "o", "u", " ", "h", "a", "v", "e", " ", "u", "s", "e", "d", " ", "a", "l", "l", " ", "a", "v", "a", "i", "l", "a", "b", "l", "e", " ", "t", "o", "o", "l", " ", "c", "a", "l", "l", "s", ".", " ", "B", "a", "s", "e", "d", " ", "o", "n", " ", "t", "h", "e", " ", "i", "n", "f", "o", "r", "m", "a", "t", "i", "o", "n", " ", "g", "a", "t", "h", "e", "r", "e", "d", ",", " ", "p", "r", "o", "v", "i", "d", "e", " ", "y", "o", "u", "r", " ", "f", "i", "n", "a", "l", " ", "a", "n", "s", "w", "e", "r", " ", "n", "o", "w", ".", " ", "D", "o", " ", "N", "O", "T", " ", "c", "a", "l", "l", " ", "a", "n", "y", " ", "t", "o", "o", "l", "s", ".", " ", "R", "e", "t", "u", "r", "n", " ", "O", "N", "L", "Y", " ", "t", "h", "e", " ", "s", "h", "e", "l", "l", " ", "c", "o", "m", "m", "a", "n", "d", ".">>

\* ------------------------------------------------------- the environment
\* The request of the caller (agent.process_query builds one user message).
Query == <<"q">>

\* The tool declarations handed to generate; <<>> stands for tools=None.
TOOL_SCHEMAS == <<"read_file", "list_directory", "search_files", "grep_files", "read_lines">>

NoTools == <<>>

\* Texts the endpoint may answer with (message.content or "").
Texts == {<<>>, <<"l", "s">>}

\* Messages of the exceptions a provider call may raise.
ProviderErrors == {<<"t", "i", "m", "e", "o", "u", "t">>, <<"5", "0", "2", "\n", "l", "s">>}

\* What config.GROQ_API_KEY may hold: nothing, an empty string, a key.
ApiKeys == {None, <<>>, <<"k">>}

\* Strings a tool may return, and messages of the exceptions it may raise.
ToolResults == {<<"o", "k">>}

ToolErrors == {<<"b", "a", "d">>}

\* The system prompt agent.process_query builds (build_system_prompt).
SystemPrompt == <<"s", "y", "s">>

\* What json.loads makes of the arguments of a tool call, and what stands
\* where it was not applied: a mapping with the one key "path" (text is
\* its value), the empty mapping, a str (text is the string), None.
Json(type, text) == [type |-> type, text |-> text]

\* The tool calls the endpoint may issue, as parse_openai_tool_calls
\* returns them: {"id", "name", "input"}.
ToolCallIds == <<"call_1", "call_2", "call_3">>

ToolCallOf(i) ==
    [id |-> ToolCallIds[i],
     name |-> TOOL_SCHEMAS[i],
     input |-> Json("dict", <<".">>)]

\* The non-empty tool-call lists of one response: ids are unique within
\* the list (the provider's contract); nothing relates the ids of two
\* responses.
ToolCallBatches ==
    LET Picks == UNION {[1..n -> 1..Len(ToolCallIds)] : n \in 1..MaxCalls}
        Increasing(p) == \A i, j \in DOMAIN p : i < j => p[i] < p[j]
    IN  {[k \in DOMAIN p |-> ToolCallOf(p[k])] : p \in {q \in Picks : Increasing(q)}}

\* Text accompanying a tool-call directive list (message.content or ""):
\* the sampled responses carry no text when they open with the first id.
ToolRequestText(batch) ==
    IF batch[1].id = "call_1" THEN <<>> ELSE <<"h", "m">>

\* ---------------------------------------------------------------- messages
Absent == "absent"

UserMsg(content) ==
    [role |-> "user", content |-> content, tool_calls |-> <<>>, tool_call_id |-> Absent]

SystemMsg(content) ==
    [role |-> "system", content |-> content, tool_calls |-> <<>>, tool_call_id |-> Absent]

\* the text of the response is kept as it is, empty or not
TextKept(text_content) == text_content

\* text_content or None
TextOrNone(text_content) == IF text_content = <<>> THEN None ELSE text_content

AssistantMsg(text_content, calls) ==
    [role |-> "assistant", content |-> TextOrNone(text_content),
     tool_calls |-> calls, tool_call_id |-> Absent]

\* the id of the call is lost: every tool message says "unknown"
ToolMsgUnknownId(tc, content) ==
    [role |-> "tool", content |-> content, tool_calls |-> <<>>, tool_call_id |-> "unknown"]

ToolMsg(tc, content) ==
    [role |-> "tool", content |-> content, tool_calls |-> <<>>, tool_call_id |-> tc.id]

\* ---------------------------------------------------------- the normalizer
\* str.strip() without an argument removes whitespace
Whitespace == {" ", "\n", "\t", "\r"}

\* the grave accent, U+0060, a character that a TLA+ string cannot hold
Backtick == "grave"

Fence == <<Backtick, Backtick, Backtick>>

PromptMarker == <<"$", " ">>

CommentMarker == <<"#">>

FunctionOpen == <<"<", "f", "u", "n", "c", "t", "i", "o", "n", "=">>

FunctionClose == <<"<", "/", "f", "u", "n", "c", "t", "i", "o", "n", ">">>

Last(s) == s[Len(s)]

Least(S) == CHOOSE x \in S : \A y \in S : x <= y

Greatest(S) == CHOOSE x \in S : \A y \in S : x >= y

IsPrefix(s, t) == Len(s) <= Len(t) /\ SubSeq(t, 1, Len(s)) = s

\* s.startswith(p)
StartsWith(s, p) == Len(p) <= Len(s) /\ SubSeq(s, 1, Len(p)) = p

\* s.endswith(p)
EndsWith(s, p) == Len(p) <= Len(s) /\ SubSeq(s, Len(s) - Len(p) + 1, Len(s)) = p

\* s.strip(chars): the characters of chars removed from both ends
StripChars(s, chars) ==
    LET kept == {i \in DOMAIN s : s[i] \notin chars}
    IN  IF kept = {} THEN <<>> ELSE SubSeq(s, Least(kept), Greatest(kept))

\* s.strip()
Strip(s) == StripChars(s, Whitespace)

\* s.split(sep): one piece more than there are separators
RECURSIVE Split(_, _)
Split(s, sep) ==
    LET at == {i \in DOMAIN s : s[i] = sep}
    IN  IF at = {} THEN <<s>>
        ELSE <<SubSeq(s, 1, Least(at) - 1)>>
                \o Split(SubSeq(s, Least(at) + 1, Len(s)), sep)

\* sep.join(pieces)
RECURSIVE Join(_, _)
Join(pieces, sep) ==
    IF pieces = <<>> THEN <<>>
    ELSE IF Len(pieces) = 1 THEN pieces[1]
    ELSE pieces[1] \o <<sep>> \o Join(Tail(pieces), sep)

\* The length of what <function=[^>]*>\{[^}]*\}</function>\s* matches at the
\* start of s, 0 when it does not match there.  [^>]* cannot cross a ">",
\* so the ">" of the pattern is the first one after the opening, and
\* likewise the "}"; \s* takes all the whitespace that follows.
MatchFunctionCall(s) ==
    IF ~StartsWith(s, FunctionOpen) THEN 0
    ELSE LET gt == {j \in (Len(FunctionOpen) + 1)..Len(s) : s[j] = ">"}
         IN  IF gt = {} THEN 0
             ELSE IF Least(gt) + 1 > Len(s) THEN 0
             ELSE IF s[Least(gt) + 1] # "{" THEN 0
             ELSE LET rb == {k \in (Least(gt) + 2)..Len(s) : s[k] = "}"}
                  IN  IF rb = {} THEN 0
                      ELSE IF ~StartsWith(SubSeq(s, Least(rb) + 1, Len(s)), FunctionClose)
                           THEN 0
                      ELSE LET e == Least(rb) + Len(FunctionClose)
                               solid == {i \in (e + 1)..Len(s) : s[i] \notin Whitespace}
                           IN  IF solid = {} THEN Len(s) ELSE Least(solid) - 1

\* re.sub(pattern, "", text): the matches are removed from left to right
RECURSIVE RemoveFunctionCalls(_)
RemoveFunctionCalls(s) ==
    IF s = <<>> THEN <<>>
    ELSE IF MatchFunctionCall(s) > 0
         THEN RemoveFunctionCalls(SubSeq(s, MatchFunctionCall(s) + 1, Len(s)))
         ELSE <<Head(s)>> \o RemoveFunctionCalls(Tail(s))

\* lines[1:]: the closing fence stays in
UnfenceKeepsClosing(text) ==
    IF StartsWith(text, Fence) /\ EndsWith(text, Fence)
    THEN LET lines == Split(text, "\n")
             inner == IF Len(lines) > 2 THEN SubSeq(lines, 2, Len(lines)) ELSE lines
         IN  Strip(Join(inner, "\n"))
    ELSE text

\* Remove markdown code blocks
Unfence(text) ==
    IF StartsWith(text, Fence) /\ EndsWith(text, Fence)
    THEN LET lines == Split(text, "\n")
             inner == IF Len(lines) > 2 THEN SubSeq(lines, 2, Len(lines) - 1) ELSE lines
         IN  Strip(Join(inner, "\n"))
    ELSE text

\* Remove single backtick wrapping
Unquote(text) ==
    IF StartsWith(text, <<Backtick>>) /\ EndsWith(text, <<Backtick>>)
          /\ \A i \in DOMAIN text : text[i] # "\n"
    THEN StripChars(text, {Backtick})
    ELSE text

\* Remove leading "$ " prompt markers
Unprompt(text) ==
    IF StartsWith(text, PromptMarker) THEN SubSeq(text, 3, Len(text)) ELSE text

IsSolid(l) == Strip(l) # <<>>

\* [l.strip() for l in text.strip().split("\n") if l.strip()]
SolidLines(text) ==
    LET lines == SelectSeq(Split(Strip(text), "\n"), IsSolid)
    IN  [i \in DOMAIN lines |-> Strip(lines[i])]

\* cmd_lines[0]: the first of the lines kept
FirstCommandLine(text) ==
    LET lines == SolidLines(text)
        Keeps(l) == ~StartsWith(l, CommentMarker) \/ l = lines[Len(lines)]
        cmd_lines == SelectSeq(lines, Keeps)
    IN  IF Len(lines) > 1
        THEN IF cmd_lines # <<>> THEN cmd_lines[1] ELSE text
        ELSE text

\* If multi-line, take the last non-empty line that looks like a command
LastCommandLine(text) ==
    LET lines == SolidLines(text)
        Keeps(l) == ~StartsWith(l, CommentMarker) \/ l = lines[Len(lines)]
        cmd_lines == SelectSeq(lines, Keeps)
    IN  IF Len(lines) > 1
        THEN IF cmd_lines # <<>> THEN cmd_lines[Len(cmd_lines)] ELSE text
        ELSE text

\* agent._clean_command
clean_command(text) ==
    Strip(LastCommandLine(Unprompt(RemoveFunctionCalls(Unquote(Unfence(Strip(text)))))))

\* ------------------------------------------------------ wire translation
\* None, where the values are atoms: the id and the name of a tool call
Nil == "None"

\* str(content)
Str(content) == IF content = None THEN <<"N", "o", "n", "e">> ELSE content

\* the characters json writes and reads as themselves inside a string
Plain(text) == \A i \in DOMAIN text : text[i] \notin {"\"", "\\", "\n", "\t", "\r"}

DictOpen == <<"{", "\"", "p", "a", "t", "h", "\"", ":", " ", "\"">>

DictClose == <<"\"", "}">>

\* json.dumps(args) of a value json.loads returned: the texts of the
\* values sent are plain
json_dumps(value) ==
    CASE value.type = "dict" -> DictOpen \o value.text \o DictClose
      [] value.type = "empty" -> <<"{", "}">>
      [] value.type = "str" -> <<"\"">> \o value.text \o <<"\"">>
      [] OTHER -> <<"n", "u", "l", "l">>

\* json.loads(text): the value, or JSONDecodeError.  It reads the
\* documents json_dumps writes; each other text sent is no JSON document.
json_loads(text) ==
    LET inner(open, close) == SubSeq(text, Len(open) + 1, Len(text) - Len(close))
        wraps(open, close) ==
            /\ Len(text) >= Len(open) + Len(close)
            /\ StartsWith(text, open)
            /\ EndsWith(text, close)
            /\ Plain(inner(open, close))
        value(type, decoded) == [kind |-> "value", value |-> Json(type, decoded)]
    IN  IF text = <<"{", "}">> THEN value("empty", <<>>)
        ELSE IF text = <<"n", "u", "l", "l">> THEN value("None", <<>>)
        ELSE IF wraps(DictOpen, DictClose) THEN value("dict", inner(DictOpen, DictClose))
        ELSE IF wraps(<<"\"">>, <<"\"">>) THEN value("str", inner(<<"\"">>, <<"\"">>))
        ELSE [kind |-> "JSONDecodeError", value |-> Json("None", <<>>)]

HasSystem(msgs) == \E i \in DOMAIN msgs : msgs[i].role = "system"

\* the system message is prepended whenever a prompt is given
PrependsAlways(msgs, prompt) ==
    IF prompt # None /\ prompt # <<>> THEN <<SystemMsg(prompt)>> \o msgs ELSE msgs

\* utils.convert_to_standard_messages, for a list of dict messages
convert_to_standard_messages(msgs, prompt) ==
    IF prompt # None /\ prompt # <<>> /\ ~HasSystem(msgs)
    THEN <<SystemMsg(prompt)>> \o msgs
    ELSE msgs

\* one entry of assistant_msg["tool_calls"]; an input that is a str is
\* sent as it is
FormatToolCall(tc) ==
    [id |-> tc.id, type |-> "function",
     function |-> [name |-> tc.name,
                   arguments |-> IF tc.input.type = "str" THEN tc.input.text
                                 ELSE json_dumps(tc.input)]]

\* content_value of an assistant message
AssistantContent(msg) ==
    IF msg.content = None \/ (msg.content = <<>> /\ msg.tool_calls # <<>>)
    THEN None
    ELSE Str(msg.content)

\* What format_messages appends for one standard message; the key
\* tool_calls is set only when there are tool calls (<<>> is no key).
FormatMessage(msg) ==
    CASE msg.role = "system" -> SystemMsg(Str(msg.content))
      [] msg.role = "user" -> UserMsg(Str(msg.content))
      [] msg.role = "assistant" ->
            [role |-> "assistant", content |-> AssistantContent(msg),
             tool_calls |-> [k \in DOMAIN msg.tool_calls |-> FormatToolCall(msg.tool_calls[k])],
             tool_call_id |-> Absent]
      [] msg.role = "tool" ->
            [role |-> "tool", content |-> Str(msg.content), tool_calls |-> <<>>,
             tool_call_id |-> IF msg.tool_call_id = Absent THEN "unknown"
                              ELSE msg.tool_call_id]

KnownRole(msg) == msg.role \in {"system", "user", "assistant", "tool"}

\* GroqProvider.format_messages: a message of another role is left out
format_messages(msgs, prompt) ==
    LET standard == SelectSeq(convert_to_standard_messages(msgs, prompt), KnownRole)
    IN  [i \in DOMAIN standard |-> FormatMessage(standard[i])]

\* json.loads(args) if isinstance(args, str) else args; a text that does
\* not decode stays as it is
DecodedArguments(arguments) ==
    IF arguments.type # "str" THEN arguments
    ELSE LET decoded == json_loads(arguments.text)
         IN  IF decoded.kind = "value" THEN decoded.value ELSE arguments

\* A wire tool call is [id, function, name, arguments]: id and name are
\* Absent where the object has no such attribute, function tells whether
\* it has the attribute function, arguments is of type "missing" where
\* tc.function has no attribute arguments.
ParsedToolCall(tc) ==
    [id |-> IF tc.id = Absent THEN Nil ELSE tc.id,
     name |-> IF tc.name = Absent THEN Nil ELSE tc.name,
     input |-> DecodedArguments(tc.arguments)]

\* tc.function.arguments is read ahead of the try
ArgumentsMissing(tc) == ~tc.function \/ tc.arguments.type = "missing"

\* utils.parse_openai_tool_calls: the list parsed, or the AttributeError
\* of the first tool call whose arguments cannot be reached
parse_openai_tool_calls(wire_calls) ==
    IF \E i \in DOMAIN wire_calls : ArgumentsMissing(wire_calls[i])
    THEN [kind |-> "raise", exception |-> "AttributeError", value |-> <<>>]
    ELSE [kind |-> "return", exception |-> "",
          value |-> [i \in DOMAIN wire_calls |-> ParsedToolCall(wire_calls[i])]]

\* message.content or ""
ContentOrEmpty(content) == IF content = None THEN <<>> ELSE content

NoContent == <<"N", "o", " ", "c", "o", "n", "t", "e", "n", "t", " ", "i", "n", " ", "G", "r", "o", "q", " ", "r", "e", "s", "p", "o", "n", "s", "e">>

\* How a call of GroqProvider.generate ends: kind is "text", "tool_calls"
\* or "raise"; sent is the wire message list it built.
Ends(kind, exception, text, calls, sent) ==
    [kind |-> kind, exception |-> exception, text |-> text, tool_calls |-> calls,
     sent |-> sent]

\* GroqProvider.generate with a client.  A wire response is [failure,
\* choices, message, content, tool_calls]: failure is the message of the
\* exception chat.completions.create raised, <<>> if it returned;
\* choices and message tell whether response.choices and
\* response.choices[0].message are there; tool_calls is <<>> for None too.
groq_generate(msgs, prompt, sent_tools, response) ==
    LET sent == format_messages(msgs, prompt)
        parsed == parse_openai_tool_calls(response.tool_calls)
    IN  IF response.failure # <<>>
        THEN Ends("raise", "Exception", response.failure, <<>>, sent)
        ELSE IF /\ sent_tools # NoTools
                /\ response.choices
                /\ response.message
                /\ response.tool_calls # <<>>
        THEN IF parsed.kind = "raise"
             THEN Ends("raise", parsed.exception, <<>>, <<>>, sent)
             ELSE Ends("tool_calls", "", ContentOrEmpty(response.content), parsed.value, sent)
        ELSE IF response.choices /\ response.message
        THEN Ends("text", "", ContentOrEmpty(response.content), <<>>, sent)
        ELSE Ends("raise", "ValueError", NoContent, <<>>, sent)

\* ---------------------------------------------------------------- the tools
\* The file system the tools run on, each entry by its resolved path: the
\* working directory /w with a text file, a binary file, a file over
\* MAX_FILE_SIZE and an empty directory; beside it the directory /wx,
\* whose name starts with that of /w, and the directory /e, each with a
\* text file.  There are no symbolic links.
Cwd == <<"/", "w">>

Entries ==
    {[path |-> <<"/">>, is |-> "dir"],
     [path |-> <<"/", "w">>, is |-> "dir"],
     [path |-> <<"/", "w", "/", "a">>, is |-> "text"],
     [path |-> <<"/", "w", "/", "b">>, is |-> "binary"],
     [path |-> <<"/", "w", "/", "b", "i", "g">>, is |-> "oversize"],
     [path |-> <<"/", "w", "/", "d">>, is |-> "dir"],
     [path |-> <<"/", "w", "x">>, is |-> "dir"],
     [path |-> <<"/", "w", "x", "/", "s">>, is |-> "text"],
     [path |-> <<"/", "e">>, is |-> "dir"],
     [path |-> <<"/", "e", "/", "p">>, is |-> "text"]}

\* what is at a resolved path, "nothing" if there is no such entry
EntryAt(target) ==
    IF \E n \in Entries : n.path = target
    THEN (CHOOSE n \in Entries : n.path = target).is
    ELSE "nothing"

\* The path arguments the model may send.
PathArgs ==
    {<<"a">>, <<"b">>, <<"b", "i", "g">>, <<"d">>, <<"n", "o", "p", "e">>, <<".">>, <<".", ".">>,
     <<".", ".", "/", "e", "/", "p">>, <<".", ".", "/", "w", "x", "/", "s">>, <<".", ".", "/", "w", "x">>, <<"/", "e", "/", "p">>}

IsName(part) == part # <<>> /\ part # <<".">>

\* the names of a path, "." and empty parts left out
Parts(path) == SelectSeq(Split(path, "/"), IsName)

\* Path.resolve() where nothing is a link: ".." drops the name before it,
\* and stays at the root
RECURSIVE Resolve(_, _)
Resolve(stack, parts) ==
    IF parts = <<>> THEN stack
    ELSE IF Head(parts) = <<".", ".">>
         THEN Resolve(IF stack = <<>> THEN <<>> ELSE SubSeq(stack, 1, Len(stack) - 1),
                      Tail(parts))
         ELSE Resolve(Append(stack, Head(parts)), Tail(parts))

\* str(path) of a resolved path
RECURSIVE Render(_)
Render(stack) ==
    IF stack = <<>> THEN <<"/">>
    ELSE IF Len(stack) = 1 THEN <<"/">> \o stack[1]
    ELSE Render(SubSeq(stack, 1, Len(stack) - 1)) \o <<"/">> \o Last(stack)

\* (cwd_path / path_str).resolve(): an absolute path_str replaces cwd_path
TargetNames(path_str, cwd) ==
    Resolve(IF StartsWith(path_str, <<"/">>) THEN <<>> ELSE Resolve(<<>>, Parts(cwd)),
            Parts(path_str))

\* not str(target).startswith(str(cwd_path)) is what raises
Safe(path_str, cwd) ==
    StartsWith(Render(TargetNames(path_str, cwd)), Render(Resolve(<<>>, Parts(cwd))))

\* An argument of a tool call: a str, an int, or not given.
ArgStr(s) == [type |-> "str", str |-> s, int |-> 0]

ArgInt(n) == [type |-> "int", str |-> <<>>, int |-> n]

ArgMissing == [type |-> "missing", str |-> <<>>, int |-> 0]

\* How a call ends: kind is "return" or "raise", text the string returned or
\* the message of the exception, reads the entries whose content or listing
\* was read on the way.
Gives(text, reads) == [kind |-> "return", exception |-> "", text |-> text, reads |-> reads]

Raises(exception, text, reads) ==
    [kind |-> "raise", exception |-> exception, text |-> text, reads |-> reads]

\* What a tool found is not modelled: every result that is not an error
\* message is the one text of ToolResults.
Found == CHOOSE t \in ToolResults : TRUE

\* the entries below a directory
Under(target) ==
    {n \in Entries :
        /\ n.path # target
        /\ StartsWith(n.path, IF target = <<"/">> THEN target ELSE target \o <<"/">>)}

\* the files below a directory that a scan opens: _is_binary reads the
\* start of each one that is not over MAX_FILE_SIZE
Scanned(target) == {n.path : n \in {m \in Under(target) : m.is \in {"text", "binary"}}}

\* _resolve_safe_path: the target, or the exception raised
resolve_safe_path(path, cwd) ==
    IF path.type # "str"
    THEN Raises("TypeError", <<"u", "n", "s", "u", "p", "p", "o", "r", "t", "e", "d", " ", "o", "p", "e", "r", "a", "n", "d", " ", "t", "y", "p", "e", "(", "s", ")", " ", "f", "o", "r", " ", "/", ":", " ", "'", "P", "o", "s", "i", "x", "P", "a", "t", "h", "'", " ", "a", "n", "d", " ", "'", "i", "n", "t", "'">>, {})
    ELSE IF ~Safe(path.str, cwd)
    THEN Raises("ValueError", <<"P", "a", "t", "h", " ", "t", "r", "a", "v", "e", "r", "s", "a", "l", " ", "b", "l", "o", "c", "k", "e", "d", ":", " ">> \o path.str, {})
    ELSE Gives(Render(TargetNames(path.str, cwd)), {})

read_file(path, cwd) ==
    LET target == resolve_safe_path(path, cwd)
        is == EntryAt(target.text)
    IN  IF target.kind = "raise" THEN target
        ELSE IF is = "nothing" THEN Gives(<<"E", "r", "r", "o", "r", ":", " ", "F", "i", "l", "e", " ", "n", "o", "t", " ", "f", "o", "u", "n", "d", ":", " ">> \o path.str, {})
        ELSE IF is = "dir" THEN Gives(<<"E", "r", "r", "o", "r", ":", " ", "N", "o", "t", " ", "a", " ", "f", "i", "l", "e", ":", " ">> \o path.str, {})
        ELSE IF is = "oversize" THEN Gives(<<"E", "r", "r", "o", "r", ":", " ", "F", "i", "l", "e", " ", "t", "o", "o", " ", "l", "a", "r", "g", "e", " ", "(", ">", "1", "0", "0", "K", "B", ")", ":", " ">> \o path.str, {})
        ELSE IF is = "binary" THEN Gives(<<"E", "r", "r", "o", "r", ":", " ", "B", "i", "n", "a", "r", "y", " ", "f", "i", "l", "e", ",", " ", "c", "a", "n", "n", "o", "t", " ", "r", "e", "a", "d", ":", " ">> \o path.str, {target.text})
        ELSE Gives(Found, {target.text})

list_directory(path, cwd, depth) ==
    LET target == resolve_safe_path(path, cwd)
        is == EntryAt(target.text)
    IN  IF target.kind = "raise" THEN target
        ELSE IF is = "nothing" THEN Gives(<<"E", "r", "r", "o", "r", ":", " ", "D", "i", "r", "e", "c", "t", "o", "r", "y", " ", "n", "o", "t", " ", "f", "o", "u", "n", "d", ":", " ">> \o path.str, {})
        ELSE IF is # "dir" THEN Gives(<<"E", "r", "r", "o", "r", ":", " ", "N", "o", "t", " ", "a", " ", "d", "i", "r", "e", "c", "t", "o", "r", "y", ":", " ">> \o path.str, {})
        ELSE IF depth.type # "int" THEN Raises("TypeError", <<"'", "<", "'", " ", "n", "o", "t", " ", "s", "u", "p", "p", "o", "r", "t", "e", "d", " ", "b", "e", "t", "w", "e", "e", "n", " ", "i", "n", "s", "t", "a", "n", "c", "e", "s", " ", "o", "f", " ", "'", "i", "n", "t", "'", " ", "a", "n", "d", " ", "'", "s", "t", "r", "'">>, {})
        ELSE Gives(IF Under(target.text) = {} THEN <<"(", "e", "m", "p", "t", "y", " ", "d", "i", "r", "e", "c", "t", "o", "r", "y", ")">> ELSE Found, {target.text})

search_files(pattern, path, cwd) ==
    LET target == resolve_safe_path(path, cwd)
    IN  IF target.kind = "raise" THEN target
        ELSE IF EntryAt(target.text) # "dir" THEN Gives(<<"E", "r", "r", "o", "r", ":", " ", "D", "i", "r", "e", "c", "t", "o", "r", "y", " ", "n", "o", "t", " ", "f", "o", "u", "n", "d", ":", " ">> \o path.str, {})
        ELSE IF pattern.type # "str" THEN Raises("TypeError", <<"u", "n", "s", "u", "p", "p", "o", "r", "t", "e", "d", " ", "o", "p", "e", "r", "a", "n", "d", " ", "t", "y", "p", "e", "(", "s", ")", " ", "f", "o", "r", " ", "/", ":", " ", "'", "P", "o", "s", "i", "x", "P", "a", "t", "h", "'", " ", "a", "n", "d", " ", "'", "i", "n", "t", "'">>, {})
        ELSE Gives(Found, {target.text})

grep_files(pattern, path, cwd) ==
    LET target == resolve_safe_path(path, cwd)
    IN  IF target.kind = "raise" THEN target
        ELSE IF EntryAt(target.text) # "dir" THEN Gives(<<"E", "r", "r", "o", "r", ":", " ", "D", "i", "r", "e", "c", "t", "o", "r", "y", " ", "n", "o", "t", " ", "f", "o", "u", "n", "d", ":", " ">> \o path.str, {})
        ELSE IF pattern.type # "str" /\ \E n \in Under(target.text) : n.is = "text"
        THEN Raises("AttributeError", <<"'", "i", "n", "t", "'", " ", "o", "b", "j", "e", "c", "t", " ", "h", "a", "s", " ", "n", "o", " ", "a", "t", "t", "r", "i", "b", "u", "t", "e", " ", "'", "l", "o", "w", "e", "r", "'">>, {target.text} \cup Scanned(target.text))
        ELSE Gives(Found, {target.text} \cup Scanned(target.text))

\* end is an int here: execute_tool raises before the call if it is not
\* given, and no other type of it is sent
read_lines(path, start, end, cwd) ==
    LET target == resolve_safe_path(path, cwd)
        is == EntryAt(target.text)
    IN  IF target.kind = "raise" THEN target
        ELSE IF is = "nothing" THEN Gives(<<"E", "r", "r", "o", "r", ":", " ", "F", "i", "l", "e", " ", "n", "o", "t", " ", "f", "o", "u", "n", "d", ":", " ">> \o path.str, {})
        ELSE IF is = "dir" THEN Gives(<<"E", "r", "r", "o", "r", ":", " ", "N", "o", "t", " ", "a", " ", "f", "i", "l", "e", ":", " ">> \o path.str, {})
        ELSE IF is = "binary" THEN Gives(<<"E", "r", "r", "o", "r", ":", " ", "B", "i", "n", "a", "r", "y", " ", "f", "i", "l", "e", ":", " ">> \o path.str, {target.text})
        ELSE IF start.type # "int"
        THEN Gives(<<"E", "r", "r", "o", "r", " ", "r", "e", "a", "d", "i", "n", "g", " ", "l", "i", "n", "e", "s", ":", " ">> \o <<"'", ">", "'", " ", "n", "o", "t", " ", "s", "u", "p", "p", "o", "r", "t", "e", "d", " ", "b", "e", "t", "w", "e", "e", "n", " ", "i", "n", "s", "t", "a", "n", "c", "e", "s", " ", "o", "f", " ", "'", "s", "t", "r", "'", " ", "a", "n", "d", " ", "'", "i", "n", "t", "'">>, {target.text})
        ELSE Gives(Found, {target.text})

\* the text of the one tool name sent that execute_tool does not know
UnknownTool == <<"n", "o", "s", "u", "c", "h">>

\* The argument mappings the model may send, well formed or not, and what
\* json.loads may make of the arguments when they are not a mapping.
ToolArgs ==
    [mapping : {TRUE},
     path : {ArgMissing, ArgInt(5)} \cup {ArgStr(p) : p \in PathArgs},
     pattern : {ArgMissing, ArgInt(5), ArgStr(<<"a">>)},
     start : {ArgMissing, ArgInt(1), ArgStr(<<"x">>)},
     end : {ArgMissing, ArgInt(2)},
     depth : {ArgMissing, ArgInt(1), ArgStr(<<"x">>)}]
    \cup
    [mapping : {FALSE}, path : {ArgMissing}, pattern : {ArgMissing}, start : {ArgMissing},
     end : {ArgMissing}, depth : {ArgMissing}]

\* the names the model may send: those of TOOL_SCHEMAS and an unknown one
ToolNames == {TOOL_SCHEMAS[i] : i \in DOMAIN TOOL_SCHEMAS} \cup {"nosuch"}

\* the key of each argument, as text
KeyText(key) ==
    CASE key = "path" -> <<"p", "a", "t", "h">>
      [] key = "pattern" -> <<"p", "a", "t", "t", "e", "r", "n">>
      [] key = "start" -> <<"s", "t", "a", "r", "t">>
      [] key = "end" -> <<"e", "n", "d">>

\* the first of the keys whose subscript raises, in the order the call
\* evaluates its arguments; <<>> if none does
RECURSIVE FirstKeyError(_, _)
FirstKeyError(args, keys) ==
    IF keys = <<>> THEN <<>>
    ELSE IF args[Head(keys)].type = "missing" THEN <<Head(keys)>>
    ELSE FirstKeyError(args, Tail(keys))

\* args.get(key, default)
Get(args, key, default) == IF args[key].type = "missing" THEN default ELSE args[key]

\* The subscripts of the call raise, or the tool is called.  What is not a
\* dict fails at the first access: the subscript, or for list_directory
\* the attribute get.
Dispatch(args, keys, first_is_get, call) ==
    IF ~args.mapping
    THEN IF first_is_get
         THEN Raises("AttributeError", <<"'", "l", "i", "s", "t", "'", " ", "o", "b", "j", "e", "c", "t", " ", "h", "a", "s", " ", "n", "o", " ", "a", "t", "t", "r", "i", "b", "u", "t", "e", " ", "'", "g", "e", "t", "'">>, {})
         ELSE Raises("TypeError", <<"l", "i", "s", "t", " ", "i", "n", "d", "i", "c", "e", "s", " ", "m", "u", "s", "t", " ", "b", "e", " ", "i", "n", "t", "e", "g", "e", "r", "s", " ", "o", "r", " ", "s", "l", "i", "c", "e", "s", ",", " ", "n", "o", "t", " ", "s", "t", "r">>, {})
    ELSE IF FirstKeyError(args, keys) # <<>>
    THEN Raises("KeyError", <<"'">> \o KeyText(FirstKeyError(args, keys)[1]) \o <<"'">>, {})
    ELSE call

execute_tool(name, args, cwd) ==
    CASE name = "read_file" ->
            Dispatch(args, <<"path">>, FALSE, read_file(args.path, cwd))
      [] name = "list_directory" ->
            Dispatch(args, <<>>, TRUE,
                     list_directory(Get(args, "path", ArgStr(<<".">>)), cwd,
                                    Get(args, "depth", ArgInt(1))))
      [] name = "search_files" ->
            Dispatch(args, <<"pattern">>, FALSE,
                     search_files(args.pattern, Get(args, "path", ArgStr(<<".">>)), cwd))
      [] name = "grep_files" ->
            Dispatch(args, <<"pattern">>, FALSE,
                     grep_files(args.pattern, Get(args, "path", ArgStr(<<".">>)), cwd))
      [] name = "read_lines" ->
            Dispatch(args, <<"path", "start", "end">>, FALSE,
                     read_lines(args.path, args.start, args.end, cwd))
      [] OTHER -> Gives(<<"E", "r", "r", "o", "r", ":", " ", "U", "n", "k", "n", "o", "w", "n", " ", "t", "o", "o", "l", " ", "'">> \o UnknownTool \o <<"'">>, {})

\* ------------------------------------------------------------------- state
VARIABLES
    providers,       \* self.providers: the provider types registered
    tools,           \* argument tools
    tool_handler,    \* argument tool_handler: TRUE iff one is supplied
    max_iterations,  \* argument max_iterations
    messages,        \* argument messages, the caller's list
    system_prompt,   \* argument system_prompt, None if not given
    pc,              \* where generate stands
    conversation,    \* local conversation
    iteration,       \* local iteration of the for loop
    tool_calls,      \* local tool_calls of the current round
    tc_idx,          \* position of the inner for loop in tool_calls
    result,          \* the value generate returned, None before it returns
    pending,         \* the awaited calls that have not come back yet
    requests,        \* every provider.generate call made: what it was sent
    responses,       \* how each provider.generate call ended
    executed,        \* every tool_handler call made
    outcomes,        \* how each tool_handler call ended
    GROQ_API_KEY,    \* config.GROQ_API_KEY
    client,          \* GroqProvider.client: TRUE iff initialize() set it
    agent,           \* where process_query stands around generate
    cleanups,        \* how many times manager.cleanup() has been run
    output,          \* the value process_query returned, None before it returns
    debug,           \* config_file.get("debug"), and whether the log can be written
    log,             \* the labels of the entries written to the debug log
    normalizer,      \* _clean_command on its own: its input, its successive outputs
    toolbox,         \* execute_tool on its own: its call, then how the call ended
    translation,     \* GroqProvider.generate on its own: the exchange, then how it ended
    lifecycle,       \* a GroqProvider on its own: its client and what was done to it
    settings,        \* config_file on its own: the file, the cache and the calls made
    search           \* grep_files on its own: the directory, then the walk over it

vars == <<providers, tools, tool_handler, max_iterations, messages, system_prompt, pc,
          conversation, iteration, tool_calls, tc_idx, result, pending, requests,
          responses, executed, outcomes, GROQ_API_KEY, client, agent, cleanups, output, debug,
          log, normalizer, toolbox, translation, lifecycle, settings, search>>

\* what LLMManager.generate and its awaited calls leave alone
outer == <<GROQ_API_KEY, client, agent, cleanups, output, debug, normalizer, toolbox,
           translation, lifecycle, settings, search>>

args == <<providers, tools, tool_handler, max_iterations, messages, system_prompt>>

\* the arguments of generate but for the message list
given == <<providers, tools, tool_handler, max_iterations, system_prompt>>

\* what belongs to process_query and LLMManager
manager == <<args, pc, conversation, iteration, tool_calls, tc_idx, result, pending,
             requests, responses, executed, outcomes, GROQ_API_KEY, client, agent,
             cleanups, output, debug, log>>

\* _clean_command has not been applied on its own
NormalizerIdle == normalizer = [input |-> <<>>, outputs |-> <<>>]

\* execute_tool has not been called on its own
ToolboxIdle == toolbox = <<>>

\* GroqProvider.generate has not been called on its own
TranslationIdle == translation = <<>>

\* no GroqProvider is used on its own
LifecycleIdle == lifecycle = <<>>

\* config_file is not used on its own
SettingsIdle == settings = <<>>

\* grep_files has not been called on its own
SearchIdle == search = <<>>

\* Nothing has run yet: no manager, no call of generate.
Fresh ==
    /\ client = FALSE
    /\ cleanups = 0
    /\ output = None
    /\ providers = {}
    /\ pc = "start"
    /\ conversation = <<>>
    /\ iteration = 0
    /\ tool_calls = <<>>
    /\ tc_idx = 0
    /\ result = None
    /\ pending = {}
    /\ requests = <<>>
    /\ responses = <<>>
    /\ executed = <<>>
    /\ outcomes = <<>>
    /\ log = <<>>

\* How tracing may stand: the debug flag off (DEFAULTS), on with a log
\* that can be written, on with a log every write to which fails.
TraceModes == {"off", "on", "failing"}

\* The histories a caller may hand to generate: the one user message of
\* process_query, a history that opens with a system message, and one with
\* an earlier turn whose assistant message has tool calls and the empty
\* string as content; the same turn where the endpoint gave the tool call no
\* id (parse_openai_tool_calls made it None and the loop copied it into the
\* tool message), and where the tool message has no key tool_call_id.
NoIdToolCall ==
    ParsedToolCall([id |-> Absent, function |-> TRUE, name |-> "read_file",
                    arguments |-> Json("dict", <<".">>)])

Histories ==
    {<<UserMsg(Query)>>,
     <<UserMsg(Query),
       [role |-> "assistant", content |-> <<>>, tool_calls |-> <<NoIdToolCall>>,
        tool_call_id |-> Absent],
       ToolMsg(NoIdToolCall, <<"o", "k">>),
       UserMsg(Query)>>,
     <<UserMsg(Query),
       [role |-> "assistant", content |-> <<>>, tool_calls |-> <<ToolCallOf(1)>>,
        tool_call_id |-> Absent],
       [ToolMsg(ToolCallOf(1), <<"o", "k">>) EXCEPT !.tool_call_id = Absent],
       UserMsg(Query)>>,
     <<SystemMsg(<<"o", "l", "d">>), UserMsg(Query)>>,
     <<UserMsg(Query),
       [role |-> "assistant", content |-> <<>>, tool_calls |-> <<ToolCallOf(1)>>,
        tool_call_id |-> Absent],
       ToolMsg(ToolCallOf(1), <<"o", "k">>),
       UserMsg(Query)>>}

\* Before LLMManager() is constructed; the arguments of generate are those
\* process_query passes, but for the tools and the executor, which are
\* given or not.
Init ==
    /\ Fresh
    /\ NormalizerIdle
    /\ ToolboxIdle
    /\ TranslationIdle
    /\ LifecycleIdle
    /\ SettingsIdle
    /\ SearchIdle
    /\ agent = "new"
    /\ GROQ_API_KEY \in ApiKeys
    /\ tools \in {NoTools, TOOL_SCHEMAS}
    /\ tool_handler \in BOOLEAN
    /\ max_iterations \in 1..MaxRounds
    /\ messages = <<UserMsg(Query)>>
    /\ system_prompt = SystemPrompt
    /\ debug = "off"

\* process_query with the debug flag of the configuration on or off:
\* the tools and the executor are those it passes
TraceInit ==
    /\ Fresh
    /\ NormalizerIdle
    /\ ToolboxIdle
    /\ TranslationIdle
    /\ LifecycleIdle
    /\ SettingsIdle
    /\ SearchIdle
    /\ agent = "new"
    /\ GROQ_API_KEY \in ApiKeys
    /\ tools = TOOL_SCHEMAS
    /\ tool_handler = TRUE
    /\ max_iterations \in 1..MaxRounds
    /\ messages = <<UserMsg(Query)>>
    /\ system_prompt = SystemPrompt
    /\ debug \in TraceModes

\* process_query is not running: the functions it uses are applied alone
ManagerIdle ==
    /\ Fresh
    /\ agent = "idle"
    /\ GROQ_API_KEY = None
    /\ tools = NoTools
    /\ tool_handler = FALSE
    /\ max_iterations = 1
    /\ messages = <<UserMsg(Query)>>
    /\ system_prompt = None
    /\ debug = "off"

\* The awaited calls: the provider call, and the call of the i-th tool of
\* the round.
ProviderCall == <<"provider", 0>>

ToolCallAt(i) == <<"tool", i>>

\* conversation = messages: the loop appends to the list of the caller
AppendsToMessages(msg) ==
    /\ conversation' = Append(conversation, msg)
    /\ messages' = conversation'

\* conversation.append(msg), where conversation = list(messages) is a list
\* of its own: the list of the caller stays as it is
conversation_append(msg) ==
    /\ conversation' = Append(conversation, msg)
    /\ UNCHANGED messages

\* return value: generate is over
Return(value) ==
    /\ result' = value
    /\ pc' = "done"

\* tools=tools: the schemas are sent whether or not there is an executor
ToolsSentAlways == tools

\* tools if tool_handler else None
ToolsSent == IF tool_handler THEN tools ELSE NoTools

\* the request is built and sent without looking at self.client
ClientAssumed == TRUE

\* if not self.client: raise RuntimeError(...), ahead of everything else
\* GroqProvider.generate does: only past it is the endpoint sent a request
ClientReady == client

\* await provider.generate(messages=conversation, ..., tools=sent); remote
\* records whether the call went on to the remote endpoint
CallProvider(msgs, sent) ==
    /\ requests' = Append(requests, [messages |-> msgs, tools |-> sent,
                                     iteration |-> iteration,
                                     remote |-> ClientReady,
                                     wire |-> IF ClientReady
                                              THEN format_messages(msgs, system_prompt)
                                              ELSE <<>>])
    /\ pending' = pending \cup {ProviderCall}

\* the exception of a failed write leaves _debug_log
DebugLogUnguarded(label) ==
    [log |-> IF debug = "on" THEN Append(log, label) ELSE log,
     raises |-> debug = "failing"]

\* _debug_log(label, data): nothing if the flag is off; else the entry is
\* appended to the log file, and whatever the attempt raises is dropped
\* (except Exception: pass)
debug_log(label) ==
    [log |-> IF debug = "on" THEN Append(log, label) ELSE log,
     raises |-> FALSE]

\* an exception nothing in generate catches leaves generate
Escape ==
    /\ pc' = "raised"
    /\ UNCHANGED <<args, outer, log, conversation, iteration, tool_calls, tc_idx, result,
                   pending, requests, responses, executed, outcomes>>

\* _debug_log(label, ...) and then the step, if the call came back
Traced(label, step) ==
    LET written == debug_log(label)
    IN  IF written.raises THEN Escape ELSE step /\ log' = written.log

\* the awaited provider call comes back
ProviderBack(how) ==
    /\ ProviderCall \in pending
    /\ pending' = pending \ {ProviderCall}
    /\ responses' = Append(responses, how)

\* What GroqProvider.generate hands back for the request in flight: a
\* str, or, only when tools were sent, a dict with a non-empty tool_calls
\* (or it raises).  It hands back no other shape, so the branches of
\* LLMManager.generate for a dict without tool_calls and for a value that
\* is neither str nor dict are not entered with this provider.
GroqTextResponses == IF Last(requests).remote THEN Texts ELSE {}

\* What GroqProvider.generate raises: the failure of the request it sent,
\* or, without a client, the RuntimeError it starts with.
GroqErrors == IF Last(requests).remote THEN ProviderErrors ELSE {NotInitialized}

GroqToolResponses ==
    IF Last(requests).remote /\ Last(requests).tools # NoTools
    THEN {[text_content |-> ToolRequestText(b), tool_calls |-> b,
           stop_reason |-> "tool_calls"] : b \in ToolCallBatches}
    ELSE {}

\* the provider is created whether or not there is a key
RegisteredAlways(key) == {GROQ}

\* self.providers is as _init_providers leaves it
Registered(key) == IF key # None /\ key # <<>> THEN {GROQ} ELSE {}

\* manager = LLMManager(): __init__ and _init_providers, which creates the
\* provider only if config.GROQ_API_KEY is set
Construct ==
    /\ agent = "new"
    /\ providers' = Registered(GROQ_API_KEY)
    /\ agent' = "constructed"
    /\ UNCHANGED <<tools, tool_handler, max_iterations, messages, system_prompt, pc,
                   conversation, iteration, tool_calls, tc_idx, result, pending, requests,
                   responses, executed, outcomes, GROQ_API_KEY, client, cleanups, output,
                   debug, log, normalizer, toolbox, translation, lifecycle, settings,
                   search>>

\* await manager.initialize(): every registered provider is initialized;
\* GroqProvider.initialize sets the client and returns True, or catches
\* the failure, leaves the client None and returns False, which the
\* manager only logs
Initialize ==
    /\ agent = "constructed"
    /\ client' \in (IF GROQ \in providers THEN BOOLEAN ELSE {FALSE})
    /\ agent' = "initialized"
    /\ UNCHANGED <<args, pc, conversation, iteration, tool_calls, tc_idx, result,
                   pending, requests, responses, executed, outcomes, GROQ_API_KEY,
                   cleanups, output, debug, log, normalizer, toolbox, translation,
                   lifecycle, settings, search>>

\* generate, up to the loop: the provider lookup and the copy of messages
Enter ==
    /\ agent = "initialized"
    /\ pc = "start"
    /\ IF GROQ \notin providers
       THEN /\ Return(ErrorPrefix \o GROQ \o NotAvailableSuffix)
            /\ UNCHANGED <<args, outer, log, conversation, iteration, tool_calls, tc_idx,
                           pending, requests, responses, executed, outcomes>>
       ELSE Traced("CONVERSATION START",
                   /\ conversation' = messages
                   /\ pc' = "loop"
                   /\ UNCHANGED <<args, outer, iteration, tool_calls, tc_idx, result,
                                  pending, requests, responses, executed, outcomes>>)

\* range(max_iterations + 1): one iteration too many
LoopContinuesOffByOne == iteration <= max_iterations

\* for iteration in range(max_iterations)
LoopContinues == iteration < max_iterations

\* one more iteration: the provider call of the round starts
Request ==
    /\ pc = "loop"
    /\ LoopContinues
    /\ Traced("REQUEST",
              /\ CallProvider(conversation, ToolsSent)
              /\ pc' = "generate"
              /\ UNCHANGED <<args, outer, conversation, iteration, tool_calls, tc_idx,
                             result, responses, executed, outcomes>>)

\* the failure is swallowed and the loop goes on to its next iteration
ProviderRaisesContinues ==
    /\ pc = "generate"
    /\ \E e \in GroqErrors :
          ProviderBack([kind |-> "raise", text |-> e, tool_calls |-> <<>>])
    /\ iteration' = iteration + 1
    /\ pc' = "loop"
    /\ UNCHANGED <<args, outer, log, conversation, tool_calls, tc_idx, result, requests,
                   executed, outcomes>>

\* except Exception as e: return f"# Error: {e}"
ProviderRaises ==
    /\ pc = "generate"
    /\ Traced("ERROR",
              /\ \E e \in GroqErrors :
                    /\ ProviderBack([kind |-> "raise", text |-> e, tool_calls |-> <<>>])
                    /\ Return(ErrorPrefix \o e)
              /\ UNCHANGED <<args, outer, conversation, iteration, tool_calls, tc_idx,
                             requests, executed, outcomes>>)

\* the text answer is recorded in the history before it is returned
ProviderReturnsTextAppends ==
    /\ pc = "generate"
    /\ \E t \in GroqTextResponses :
          /\ ProviderBack([kind |-> "text", text |-> t, tool_calls |-> <<>>])
          /\ conversation' = Append(conversation, AssistantMsg(t, <<>>))
          /\ Return(t)
    /\ UNCHANGED <<args, outer, log, iteration, tool_calls, tc_idx, requests, executed,
                   outcomes>>

\* if isinstance(response, str): return response
ProviderReturnsText ==
    /\ pc = "generate"
    /\ Traced("RESPONSE",
              /\ \E t \in GroqTextResponses :
                    /\ ProviderBack([kind |-> "text", text |-> t, tool_calls |-> <<>>])
                    /\ Return(t)
              /\ UNCHANGED <<args, outer, conversation, iteration, tool_calls, tc_idx,
                             requests, executed, outcomes>>)

\* a dict with tool_calls: the assistant message is appended and the
\* inner loop over tool_calls starts
ProviderReturnsToolCalls ==
    /\ pc = "generate"
    /\ Traced("RESPONSE",
              /\ \E r \in GroqToolResponses :
                    /\ ProviderBack([kind |-> "tool_calls", text |-> r.text_content,
                                     tool_calls |-> r.tool_calls])
                    /\ tool_calls' = r.tool_calls
                    /\ conversation_append(AssistantMsg(r.text_content, r.tool_calls))
              /\ tc_idx' = 1
              /\ pc' = "tools"
              /\ UNCHANGED <<given, outer, iteration, result, requests, executed, outcomes>>)

\* the tool is started but not awaited: the inner loop goes straight on
ToolCallNoAwait ==
    /\ pc = "tools"
    /\ tc_idx <= Len(tool_calls)
    /\ executed' = Append(executed, [iteration |-> iteration, index |-> tc_idx,
                                     call |-> tool_calls[tc_idx]])
    /\ pending' = pending \cup {ToolCallAt(tc_idx)}
    /\ IF tc_idx < Len(tool_calls)
       THEN tc_idx' = tc_idx + 1 /\ pc' = "tools"
       ELSE tc_idx' = tc_idx /\ pc' = "tool"
    /\ UNCHANGED <<args, outer, log, conversation, iteration, tool_calls, result, requests,
                   responses, outcomes>>

\* for tc in tool_calls: await tool_handler(tc["name"], tc["input"])
ToolCall ==
    /\ pc = "tools"
    /\ tc_idx <= Len(tool_calls)
    /\ executed' = Append(executed, [iteration |-> iteration, index |-> tc_idx,
                                     call |-> tool_calls[tc_idx]])
    /\ pending' = pending \cup {ToolCallAt(tc_idx)}
    /\ pc' = "tool"
    /\ UNCHANGED <<args, outer, log, conversation, iteration, tool_calls, tc_idx, result, requests,
                   responses, outcomes>>

\* the round ends after its first tool call
AfterToolBreaks ==
    /\ tc_idx' = tc_idx
    /\ iteration' = iteration + 1
    /\ pc' = "loop"

\* the inner loop moves to the next tool call; after the last one,
\* continue: the next iteration of the outer loop
AfterTool ==
    IF tc_idx < Len(tool_calls)
    THEN /\ tc_idx' = tc_idx + 1
         /\ pc' = "tools"
         /\ UNCHANGED iteration
    ELSE /\ tc_idx' = tc_idx
         /\ iteration' = iteration + 1
         /\ pc' = "loop"

\* the awaited tool call comes back
ToolBack(how) ==
    /\ ToolCallAt(tc_idx) \in pending
    /\ pending' = pending \ {ToolCallAt(tc_idx)}
    /\ outcomes' = Append(outcomes, how)

\* the tool returned: its result becomes a tool message
ToolReturns ==
    /\ pc = "tool"
    /\ \E r \in ToolResults :
          /\ ToolBack([kind |-> "result", value |-> r])
          /\ conversation_append(ToolMsg(tool_calls[tc_idx], r))
    /\ AfterTool
    /\ UNCHANGED <<given, outer, log, tool_calls, result, requests, responses, executed>>

\* the exception of the tool is swallowed: no tool message for the call
ToolRaisesSilently ==
    /\ pc = "tool"
    /\ \E e \in ToolErrors : ToolBack([kind |-> "raise", value |-> e])
    /\ AfterTool
    /\ UNCHANGED <<args, outer, log, conversation, tool_calls, result, requests, responses, executed>>

\* the exception of the tool ends generate like a provider failure
ToolRaisesAborts ==
    /\ pc = "tool"
    /\ \E e \in ToolErrors :
          /\ ToolBack([kind |-> "raise", value |-> e])
          /\ Return(ErrorPrefix \o e)
    /\ UNCHANGED <<args, outer, log, conversation, iteration, tool_calls, tc_idx, requests,
                   responses, executed>>

\* except Exception as e: the tool message carries f"Error: {e}"
ToolRaises ==
    /\ pc = "tool"
    /\ \E e \in ToolErrors :
          /\ ToolBack([kind |-> "raise", value |-> e])
          /\ conversation_append(ToolMsg(tool_calls[tc_idx], ToolErrorPrefix \o e))
    /\ AfterTool
    /\ UNCHANGED <<given, outer, log, tool_calls, result, requests, responses, executed>>

\* the history is cut back to the caller's messages before the final call
ForceFinalResets ==
    /\ pc = "loop"
    /\ ~LoopContinues
    /\ conversation' = Append(messages, UserMsg(FinalPrompt))
    /\ CallProvider(conversation', NoTools)
    /\ pc' = "final"
    /\ UNCHANGED <<args, outer, log, iteration, tool_calls, tc_idx, result, responses, executed,
                   outcomes>>

\* the final call still offers the tools
ForceFinalKeepsTools ==
    /\ pc = "loop"
    /\ ~LoopContinues
    /\ conversation' = Append(conversation, UserMsg(FinalPrompt))
    /\ CallProvider(conversation', ToolsSent)
    /\ pc' = "final"
    /\ UNCHANGED <<args, outer, log, iteration, tool_calls, tc_idx, result, responses, executed,
                   outcomes>>

\* the loop ran out: the synthetic user message, then the call without tools
ForceFinal ==
    /\ pc = "loop"
    /\ ~LoopContinues
    /\ Traced("FINAL REQUEST (tools disabled)",
              /\ conversation_append(UserMsg(FinalPrompt))
              /\ CallProvider(conversation', NoTools)
              /\ pc' = "final"
              /\ UNCHANGED <<given, outer, iteration, tool_calls, tc_idx, result, responses,
                             executed, outcomes>>)

\* return final if isinstance(final, str) else str(final)
FinalReturns ==
    /\ pc = "final"
    /\ Traced("FINAL RESPONSE",
              /\ \E t \in GroqTextResponses :
                    /\ ProviderBack([kind |-> "text", text |-> t, tool_calls |-> <<>>])
                    /\ Return(t)
              /\ UNCHANGED <<args, outer, conversation, iteration, tool_calls, tc_idx,
                             requests, executed, outcomes>>)

\* except Exception as e: return f"# Error after max iterations: {e}"
FinalRaises ==
    /\ pc = "final"
    /\ Traced("FINAL ERROR",
              /\ \E e \in GroqErrors :
                    /\ ProviderBack([kind |-> "raise", text |-> e, tool_calls |-> <<>>])
                    /\ Return(FinalErrorPrefix \o e)
              /\ UNCHANGED <<args, outer, conversation, iteration, tool_calls, tc_idx,
                             requests, executed, outcomes>>)

\* manager.cleanup(): provider.cleanup() closes the client and sets it to
\* None; where close() raises, the client stays and the manager only logs
manager_cleanup ==
    /\ cleanups' = cleanups + 1
    /\ client' \in (IF client THEN BOOLEAN ELSE {FALSE})

\* await manager.cleanup() stands after the try statement: an exception
\* that leaves the try statement passes it by
CleanupAfterTry(raising) ==
    IF raising THEN UNCHANGED <<cleanups, client>> ELSE manager_cleanup

\* finally: await manager.cleanup(), however the try block was left
finally_cleanup(raising) == manager_cleanup

\* return _clean_command(result), and await manager.cleanup() on the way out
ProcessQueryReturns ==
    /\ agent = "initialized"
    /\ pc = "done"
    /\ output' = clean_command(result)
    /\ finally_cleanup(FALSE)
    /\ agent' = "returned"
    /\ UNCHANGED <<args, pc, conversation, iteration, tool_calls, tc_idx, result,
                   pending, requests, responses, executed, outcomes, GROQ_API_KEY,
                   debug, log, normalizer, toolbox, translation, lifecycle,
                   settings, search>>

\* The task that runs process_query is cancelled while generate awaits the
\* provider or a tool (main.py: Ctrl-C under asyncio.run): CancelledError
\* is raised at the await; it is no Exception, so that no except arm of
\* generate catches it and it leaves generate.
Interrupted ==
    /\ agent = "initialized"
    /\ pending # {}
    /\ pending' = {}
    /\ pc' = "raised"
    /\ UNCHANGED <<args, outer, log, conversation, iteration, tool_calls, tc_idx, result,
                   requests, responses, executed, outcomes>>

\* an exception that is no Exception leaves generate: the except arm of
\* process_query lets it pass, the finally clause runs, and it leaves
\* process_query, which returns nothing
ProcessQueryRaises ==
    /\ agent = "initialized"
    /\ pc = "raised"
    /\ finally_cleanup(TRUE)
    /\ agent' = "raised"
    /\ UNCHANGED <<args, pc, conversation, iteration, tool_calls, tc_idx, result,
                   pending, requests, responses, executed, outcomes, GROQ_API_KEY,
                   output, debug, log, normalizer, toolbox, translation, lifecycle,
                   settings, search>>

\* the steps of LLMManager and of the calls it awaits
ManagerNext ==
    \/ Construct
    \/ Initialize
    \/ Enter
    \/ Request
    \/ ProviderRaises
    \/ ProviderReturnsText
    \/ ProviderReturnsToolCalls
    \/ ToolCall
    \/ ToolReturns
    \/ ToolRaises
    \/ ForceFinal
    \/ FinalReturns
    \/ FinalRaises

Next ==
    \/ ManagerNext
    \/ ProcessQueryReturns

Spec == Init /\ [][Next]_vars

\* process_query, tracing standing in any way
TraceSpec == TraceInit /\ [][Next]_vars

\* Every awaited call comes back: the client has a timeout and the tools
\* are bounded synchronous file operations.  The fairness is that of the
\* manager's steps; nothing is assumed of the caller of generate.
LiveSpec == Spec /\ WF_vars(ManagerNext)

\* process_query as it calls generate: with the schemas and an executor
AgentInit == Init /\ tools = TOOL_SCHEMAS /\ tool_handler

\* process_query where the run may be interrupted
AgentNext ==
    \/ Next
    \/ Interrupted
    \/ ProcessQueryRaises

\* The event loop resumes the coroutine after every await that ends, and
\* every awaited call ends (LiveSpec); whether and when the run is
\* interrupted is up to the user.  The last conjunct is the weak fairness
\* of ProcessQueryReturns, written with the condition under which it is
\* enabled: process_query does not stop where generate has returned.
AgentSpec ==
    /\ AgentInit
    /\ [][AgentNext]_vars
    /\ WF_vars(ManagerNext)
    /\ WF_vars(ProcessQueryRaises)
    /\ []<>~(agent = "initialized" /\ pc = "done")

\* ------------------------------------------------ _clean_command on its own
\* a function-call artifact as the model leaks it into its text
FunctionCall == FunctionOpen \o <<"f", ">", "{", "}">> \o FunctionClose

\* What the texts are made of: the markers _clean_command looks for, white
\* space, and a word.
Pieces ==
    {Fence, <<Backtick>>, <<"\n">>, <<" ">>, CommentMarker, PromptMarker, <<"l", "s">>,
     FunctionCall}

\* the texts made of at most n pieces
RECURSIVE TextsOf(_)
TextsOf(n) ==
    IF n = 0 THEN {<<>>}
    ELSE TextsOf(n - 1) \cup {t \o p : t \in TextsOf(n - 1), p \in Pieces}

\* How the model wraps what it answers: not at all, in backticks, or in a
\* fenced block.
Wrappings ==
    {<< <<>>, <<>> >>,
     << <<Backtick>>, <<Backtick>> >>,
     << Fence \o <<"\n">>, <<"\n">> \o Fence >>}

\* message.content or "": any text at all
ProviderTexts == {w[1] \o t \o w[2] : t \in TextsOf(MaxPieces), w \in Wrappings}

CleanInit ==
    /\ ManagerIdle
    /\ ToolboxIdle
    /\ TranslationIdle
    /\ LifecycleIdle
    /\ SettingsIdle
    /\ SearchIdle
    /\ normalizer \in {[input |-> t, outputs |-> <<>>] : t \in ProviderTexts}

\* _clean_command(text), applied to the input and then to what it returned
Clean ==
    /\ Len(normalizer.outputs) < MaxApplications
    /\ normalizer' =
          [normalizer EXCEPT !.outputs =
              Append(@, clean_command(IF @ = <<>> THEN normalizer.input ELSE Last(@)))]
    /\ UNCHANGED <<manager, toolbox, translation, lifecycle, settings, search>>

CleanNext == Clean

CleanSpec == CleanInit /\ [][CleanNext]_vars

\* --------------------------------------------------- execute_tool on its own
ToolsInit ==
    /\ ManagerIdle
    /\ NormalizerIdle
    /\ TranslationIdle
    /\ LifecycleIdle
    /\ SettingsIdle
    /\ SearchIdle
    /\ toolbox \in {<<[name |-> n, args |-> a]>> : n \in ToolNames, a \in ToolArgs}

\* await execute_tool(name, args, cwd): the call and how it ended
ExecuteTool ==
    /\ Len(toolbox) = 1
    /\ toolbox' = Append(toolbox, execute_tool(toolbox[1].name, toolbox[1].args, Cwd))
    /\ UNCHANGED <<manager, normalizer, translation, lifecycle, settings, search>>

ToolsNext == ExecuteTool

ToolsSpec == ToolsInit /\ [][ToolsNext]_vars

\* ------------------------------------------- GroqProvider.generate on its own
\* The tool calls a wire response may carry: well formed, with arguments
\* that are no JSON document, with arguments that are a mapping already,
\* without id and name, without arguments, without function.
WireToolCalls ==
    {[id |-> "call_1", function |-> TRUE, name |-> "read_file",
      arguments |-> Json("str", DictOpen \o <<".">> \o DictClose)],
     [id |-> "call_2", function |-> TRUE, name |-> "list_directory",
      arguments |-> Json("str", <<"{">>)],
     [id |-> "call_3", function |-> TRUE, name |-> "grep_files",
      arguments |-> Json("dict", <<".">>)],
     [id |-> Absent, function |-> TRUE, name |-> Absent,
      arguments |-> Json("str", <<"{", "}">>)],
     [id |-> "call_1", function |-> TRUE, name |-> "read_file",
      arguments |-> Json("missing", <<>>)],
     [id |-> "call_1", function |-> FALSE, name |-> Absent,
      arguments |-> Json("missing", <<>>)]}

WireToolCallLists == UNION {[1..n -> WireToolCalls] : n \in 0..MaxCalls}

\* What chat.completions.create may come back with.
WireResponses ==
    {[failure |-> e, choices |-> FALSE, message |-> FALSE, content |-> None,
      tool_calls |-> <<>>] : e \in ProviderErrors}
    \cup
    {[failure |-> <<>>, choices |-> c, message |-> FALSE, content |-> None,
      tool_calls |-> <<>>] : c \in BOOLEAN}
    \cup
    {[failure |-> <<>>, choices |-> TRUE, message |-> TRUE, content |-> t,
      tool_calls |-> l] : t \in {None} \cup Texts, l \in WireToolCallLists}

GroqInit ==
    /\ ManagerIdle
    /\ NormalizerIdle
    /\ ToolboxIdle
    /\ LifecycleIdle
    /\ SettingsIdle
    /\ SearchIdle
    /\ translation \in
          {<<[messages |-> m, system_prompt |-> p, tools |-> t, response |-> r]>> :
              m \in Histories, p \in {None, <<>>, SystemPrompt},
              t \in {NoTools, TOOL_SCHEMAS}, r \in WireResponses}

\* await provider.generate(messages, system_prompt, tools=...): the call
\* and how it ended
GroqGenerate ==
    /\ Len(translation) = 1
    /\ translation' =
          Append(translation,
                 groq_generate(translation[1].messages, translation[1].system_prompt,
                               translation[1].tools, translation[1].response))
    /\ UNCHANGED <<manager, normalizer, toolbox, lifecycle, settings, search>>

GroqNext == GroqGenerate

GroqSpec == GroqInit /\ [][GroqNext]_vars

\* process_query, or GroqProvider.generate on its own
WireInit == Init \/ GroqInit

WireNext == Next \/ GroqNext

WireSpec == WireInit /\ [][WireNext]_vars

\* --------------------------------------------- the GroqProvider's client
\* BaseProvider.__init__: no client.  client is 0 for None and k for the
\* k-th AsyncOpenAI made; closes[k] counts the calls of its close(); history
\* is what was applied so far and how each call ended.
NewProvider == [client |-> 0, closes |-> <<>>, history |-> <<>>]

Applied(p, op, outcome, message, used) ==
    [p EXCEPT !.history = Append(@, [op |-> op, outcome |-> outcome,
                                     message |-> message, used |-> used,
                                     client |-> p.client])]

\* await provider.initialize(); AsyncOpenAI(...) is made, or raises
initialize(p, made) ==
    IF made
    THEN Applied([p EXCEPT !.client = Len(p.closes) + 1, !.closes = Append(@, 0)],
                 "initialize", "True", <<>>, 0)
    ELSE Applied(p, "initialize", "False", <<>>, 0)

\* await provider.generate(...), as far as the client goes; the request
\* comes back or fails
generate(p, fails) ==
    IF p.client = 0
    THEN Applied(p, "generate", "RuntimeError", NotInitialized, 0)
    ELSE Applied(p, "generate", IF fails THEN "raised" ELSE "returned", <<>>,
                 p.client)

\* await provider.cleanup(); the client's close() returns or raises
cleanup(p, close_raises) ==
    IF p.client = 0
    THEN Applied(p, "cleanup", "returned", <<>>, 0)
    ELSE LET closed == [p EXCEPT !.closes[p.client] = @ + 1]
         IN  IF close_raises
             THEN Applied(closed, "cleanup", "raised", <<>>, p.client)
             ELSE Applied([closed EXCEPT !.client = 0], "cleanup", "returned", <<>>,
                          p.client)

ProviderInit ==
    /\ ManagerIdle
    /\ NormalizerIdle
    /\ ToolboxIdle
    /\ TranslationIdle
    /\ SettingsIdle
    /\ SearchIdle
    /\ lifecycle = <<NewProvider>>

MoreOps == Len(lifecycle) = 1 /\ Len(lifecycle[1].history) < MaxOps

LifecycleInitialize ==
    /\ MoreOps
    /\ \E made \in BOOLEAN : lifecycle' = <<initialize(lifecycle[1], made)>>
    /\ UNCHANGED <<manager, normalizer, toolbox, translation, settings, search>>

LifecycleGenerate ==
    /\ MoreOps
    /\ \E fails \in BOOLEAN : lifecycle' = <<generate(lifecycle[1], fails)>>
    /\ UNCHANGED <<manager, normalizer, toolbox, translation, settings, search>>

LifecycleCleanup ==
    /\ MoreOps
    /\ \E close_raises \in BOOLEAN : lifecycle' = <<cleanup(lifecycle[1], close_raises)>>
    /\ UNCHANGED <<manager, normalizer, toolbox, translation, settings, search>>

ProviderNext == LifecycleInitialize \/ LifecycleGenerate \/ LifecycleCleanup

ProviderSpec == ProviderInit /\ [][ProviderNext]_vars

\* ------------------------------------------------------ the configuration
\* A value of the TOML document by its Python type after tomllib.load; a
\* float is inf or nan here, a text is no numeral; text, number and flag
\* hold the value of a str or float, of an int and of a bool.  A key the document does
\* not set is what dict.get answers for it, None.
Toml(type, text, number, flag) ==
    [type |-> type, text |-> text, number |-> number, flag |-> flag]

NotSet == Toml("absent", <<>>, 0, FALSE)

TomlStr(text) == Toml("str", text, 0, FALSE)

TomlInt(number) == Toml("int", <<>>, number, FALSE)

TomlBool(flag) == Toml("bool", <<>>, 0, flag)

TomlFloat(text) == Toml("float", text, 0, FALSE)

TomlList == Toml("list", <<>>, 0, FALSE)

Groq == <<"g", "r", "o", "q">>

Cerebras == <<"c", "e", "r", "e", "b", "r", "a", "s">>

OpenAI == <<"o", "p", "e", "n", "a", "i">>

DEFAULTS ==
    [provider |-> Groq, model |-> None, history_lines |-> 20, max_iterations |-> 5,
     max_file_lines |-> 500, debug |-> FALSE]

VALID_PROVIDERS == {Groq, Cerebras}

\* int(value): the integer, or the exception
int(value) ==
    CASE value.type = "int" -> [raises |-> "", val |-> value.number]
      [] value.type = "bool" -> [raises |-> "", val |-> IF value.flag THEN 1 ELSE 0]
      [] value.type = "float" ->
             [raises |-> IF value.text = <<"i", "n", "f">> THEN "OverflowError"
                         ELSE "ValueError",
              val |-> 0]
      [] value.type = "str" -> [raises |-> "ValueError", val |-> 0]
      [] OTHER -> [raises |-> "TypeError", val |-> 0]

\* _validate_int(value, key, minimum): val when valid, None (valid FALSE)
\* when not, or the exception its except clause does not name
_validate_int(value, minimum) ==
    LET n == int(value)
    IN  IF n.raises \in {"TypeError", "ValueError"}
        THEN [raises |-> "", valid |-> FALSE, val |-> 0]
        ELSE IF n.raises # ""
        THEN [raises |-> n.raises, valid |-> FALSE, val |-> 0]
        ELSE [raises |-> "", valid |-> n.val >= minimum, val |-> n.val]

Went(config) == [config |-> config, raises |-> ""]

\* primary in VALID_PROVIDERS hashes primary
SetProvider(config, primary) ==
    IF primary.type = "absent"
    THEN Went(config)
    ELSE IF primary.type \in {"list", "dict"}
    THEN [config |-> config, raises |-> "TypeError"]
    ELSE IF primary.type = "str" /\ primary.text \in VALID_PROVIDERS
    THEN Went([config EXCEPT !.provider = primary.text])
    ELSE Went(config)

SetModel(config, model) ==
    IF model.type = "str" /\ Strip(model.text) # <<>>
    THEN Went([config EXCEPT !.model = Strip(model.text)])
    ELSE Went(config)

SetInt(config, key, value, minimum) ==
    IF value.type = "absent"
    THEN Went(config)
    ELSE LET val == _validate_int(value, minimum)
         IN  IF val.raises # ""
             THEN [config |-> config, raises |-> val.raises]
             ELSE IF val.valid
             THEN Went([config EXCEPT ![key] = val.val])
             ELSE Went(config)

SetDebug(config, enabled) ==
    IF enabled.type = "bool"
    THEN Went([config EXCEPT !.debug = enabled.flag])
    ELSE Went(config)

\* the next statement runs if the one before it did not raise
Then(went, Set(_)) == IF went.raises # "" THEN went ELSE Set(went.config)

\* load_config from line 74 on: the sections of the document in turn
Merge(config, data) ==
    LET OfPrimary(c) == SetProvider(c, data.primary)
        OfModel(c) == SetModel(c, data.model)
        OfHistoryLines(c) == SetInt(c, "history_lines", data.history_lines, 1)
        OfMaxIterations(c) == SetInt(c, "max_iterations", data.max_iterations, 1)
        OfMaxFileLines(c) == SetInt(c, "max_file_lines", data.max_file_lines, 10)
        OfEnabled(c) == SetDebug(c, data.debug)
    IN  Then(Then(Then(Then(Then(OfPrimary(config), OfModel), OfHistoryLines),
                       OfMaxIterations), OfMaxFileLines), OfEnabled)

\* The module's globals and the file at CONFIG_PATH.  A dict is the
\* one-element sequence of its keys' record, {} the empty sequence.
Imported(file) ==
    [file |-> file, DEFAULTS |-> DEFAULTS, _config |-> <<>>, _loaded |-> FALSE]

load_config(s) ==
    IF s._loaded
    THEN [state |-> s, raises |-> "", value |-> s._config, read |-> FALSE]
    ELSE LET started == [s EXCEPT !._config = <<s.DEFAULTS>>, !._loaded = TRUE]
         IN  IF s.file.kind # "document"
             THEN [state |-> started, raises |-> "", value |-> started._config,
                   read |-> TRUE]
             ELSE LET merged == Merge(s.DEFAULTS, s.file)
                  IN  [state |-> [started EXCEPT !._config = <<merged.config>>],
                       raises |-> merged.raises,
                       value |-> <<merged.config>>,
                       read |-> TRUE]

\* cfg.get(key, DEFAULTS.get(key))
get(s, key) ==
    LET cfg == load_config(s)
    IN  [cfg EXCEPT !.value = IF cfg.value = <<>> THEN s.DEFAULTS[key]
                              ELSE cfg.value[1][key]]

ResetKeepsLoaded(s) == [s EXCEPT !._config = <<>>]

reset(s) == [s EXCEPT !._config = <<>>, !._loaded = FALSE]

Document(primary, model, history, iterations, file_lines, enabled) ==
    [kind |-> "document", primary |-> primary, model |-> model,
     history_lines |-> history, max_iterations |-> iterations,
     max_file_lines |-> file_lines, debug |-> enabled]

\* no file at CONFIG_PATH, or one tomllib.load raises on
NoDocument(kind) == [Document(NotSet, NotSet, NotSet, NotSet, NotSet, NotSet)
                         EXCEPT !.kind = kind]

Empty == Document(NotSet, NotSet, NotSet, NotSet, NotSet, NotSet)

Documents ==
    {Document(primary, model, history, iterations, file_lines, enabled) :
        primary \in {NotSet, TomlStr(Cerebras), TomlStr(OpenAI),
                     TomlList},
        model \in {NotSet, TomlStr(<<" ", "m", " ">>), TomlStr(<<" ">>)},
        history \in {NotSet, TomlInt(30), TomlInt(0),
                           TomlFloat(<<"i", "n", "f">>)},
        iterations \in {NotSet, TomlInt(3), TomlBool(TRUE)},
        file_lines \in {NotSet, TomlInt(9), TomlInt(10)},
        enabled \in {NotSet, TomlBool(TRUE)}}

Files == {NoDocument("missing"), NoDocument("corrupt")} \cup Documents

\* what the file is changed to between two calls
Rewrites ==
    {NoDocument("missing"),
     Document(TomlStr(Cerebras), NotSet, TomlInt(30), NotSet, NotSet, NotSet),
     Document(NotSet, TomlStr(<<" ", "m", " ">>), TomlFloat(<<"i", "n", "f">>),
              TomlInt(3), NotSet, NotSet)}

Keys == {"provider", "model", "history_lines", "max_iterations", "max_file_lines",
         "debug"}

\* settings is the globals, whether load_config was called since the import
\* or the last reset, and the call made last
Settings(s, loaded, op, key, ended) ==
    <<[globals |-> s, loaded |-> loaded, op |-> op, key |-> key,
       raises |-> ended.raises, value |-> ended.value, read |-> ended.read]>>

Nothing == [raises |-> "", value |-> <<>>, read |-> FALSE]

ConfigInit ==
    /\ ManagerIdle
    /\ NormalizerIdle
    /\ ToolboxIdle
    /\ TranslationIdle
    /\ LifecycleIdle
    /\ SearchIdle
    /\ settings \in {Settings(Imported(file), FALSE, "import", "", Nothing) :
                        file \in Files}

LoadConfig ==
    /\ Len(settings) = 1
    /\ LET ended == load_config(settings[1].globals)
       IN  settings' = Settings(ended.state, TRUE, "load_config", "", ended)
    /\ UNCHANGED <<manager, normalizer, toolbox, translation, lifecycle, search>>

GetKey ==
    /\ Len(settings) = 1
    /\ \E key \in Keys :
          LET ended == get(settings[1].globals, key)
          IN  settings' = Settings(ended.state, TRUE, "get", key, ended)
    /\ UNCHANGED <<manager, normalizer, toolbox, translation, lifecycle, search>>

Reset ==
    /\ Len(settings) = 1
    /\ settings' = Settings(reset(settings[1].globals), FALSE, "reset", "", Nothing)
    /\ UNCHANGED <<manager, normalizer, toolbox, translation, lifecycle, search>>

WriteFile ==
    /\ Len(settings) = 1
    /\ \E file \in Rewrites \ {settings[1].globals.file} :
          settings' = Settings([settings[1].globals EXCEPT !.file = file],
                             settings[1].loaded, "write", "", Nothing)
    /\ UNCHANGED <<manager, normalizer, toolbox, translation, lifecycle, search>>

ConfigNext == LoadConfig \/ GetKey \/ Reset \/ WriteFile

ConfigSpec == ConfigInit /\ [][ConfigNext]_vars

\* ------------------------------------------------- grep_files on its own
MAX_FILE_SIZE == 102400

MAX_SEARCH_RESULTS == 50

max_files == 200

\* An entry of sorted(target.rglob("*")) by what the loop asks of it: parts
\* is hidden when a part of its relative path starts with a dot, noise when
\* one is node_modules, __pycache__, build or dist, and plain otherwise;
\* matching is the number of its lines that contain the pattern.
PathEntry(parts, is_file, st_size, binary, readable, matching) ==
    [parts |-> parts, is_file |-> is_file, st_size |-> st_size, binary |-> binary,
     readable |-> readable, matching |-> matching]

TextFile == PathEntry("plain", TRUE, 10, FALSE, TRUE, 0)

PathEntries ==
    {TextFile,
     PathEntry("plain", TRUE, 10, FALSE, TRUE, 1),
     PathEntry("plain", TRUE, 10, FALSE, TRUE, MAX_SEARCH_RESULTS - 1),
     PathEntry("plain", TRUE, 10, FALSE, TRUE, MAX_SEARCH_RESULTS + 1),
     PathEntry("plain", TRUE, MAX_FILE_SIZE, FALSE, TRUE, 0),
     PathEntry("plain", TRUE, MAX_FILE_SIZE + 1, FALSE, TRUE, 1),
     PathEntry("plain", TRUE, 10, TRUE, TRUE, 1),
     PathEntry("plain", TRUE, 10, FALSE, FALSE, 0),
     PathEntry("plain", FALSE, 10, FALSE, FALSE, 0),
     PathEntry("hidden", TRUE, 10, FALSE, TRUE, 1),
     PathEntry("noise", TRUE, 10, FALSE, TRUE, 1)}

\* lines 169-179 without the binary check
SkipsNoBinary(file_path) ==
    \/ file_path.parts \in {"hidden", "noise"}
    \/ ~file_path.is_file
    \/ file_path.st_size > MAX_FILE_SIZE

\* lines 169-179: the entries the loop passes over
Skips(file_path) ==
    \/ file_path.parts \in {"hidden", "noise"}
    \/ ~file_path.is_file
    \/ file_path.st_size > MAX_FILE_SIZE
    \/ file_path.binary

\* One turn of the loop of lines 164-196; matches is len(matches), broke
\* is set once the loop was left by a break, largest is the size of the
\* largest file read so far.
Turn(file_path, walked) ==
    IF walked.broke
    THEN walked
    ELSE IF walked.files_scanned >= max_files
    THEN [walked EXCEPT !.broke = TRUE]
    ELSE IF Skips(file_path)
    THEN walked
    ELSE IF ~file_path.readable
    THEN [walked EXCEPT !.files_scanned = @ + 1]
    ELSE LET all == walked.matches + file_path.matching
             found == IF all > MAX_SEARCH_RESULTS THEN MAX_SEARCH_RESULTS ELSE all
         IN  [walked EXCEPT !.files_scanned = @ + 1, !.matches = found,
                            !.broke = found >= MAX_SEARCH_RESULTS,
                            !.largest = IF file_path.st_size > @
                                        THEN file_path.st_size ELSE @]

Digit(d) == <<"0", "1", "2", "3", "4", "5", "6", "7", "8", "9">>[d + 1]

\* str(n) of a natural number
RECURSIVE Decimal(_)
Decimal(n) == IF n < 10 THEN <<Digit(n)>> ELSE Decimal(n \div 10) \o <<Digit(n % 10)>>

NoMatches(pattern, path, files_scanned) ==
    <<"N", "o", " ", "m", "a", "t", "c", "h", "e", "s", " ", "f", "o", "r", " ", "'">> \o pattern \o <<"'", " ", "i", "n", " ">> \o path \o <<" ", "(">>
        \o Decimal(files_scanned) \o <<" ", "f", "i", "l", "e", "s", " ", "s", "e", "a", "r", "c", "h", "e", "d", ")">>

\* lines 198-204; the lines found are not rendered
TruncatedMatches ==
    <<"\n", "\n", "[", "T", "r", "u", "n", "c", "a", "t", "e", "d", ":", " ", "s", "h", "o", "w", "i", "n", "g", " ", "f", "i", "r", "s", "t", " ", "5", "0", " ", "m", "a", "t", "c", "h", "e", "s", "]">>

grep_result(pattern, path, walked) ==
    IF walked.matches = 0
    THEN NoMatches(pattern, path, walked.files_scanned)
    ELSE IF walked.matches = MAX_SEARCH_RESULTS
    THEN Found \o TruncatedMatches
    ELSE Found

\* how many text files the directory has besides the entries drawn freely
Crowds == {0, max_files - 1, max_files + 1}

\* sorted(target.rglob("*")): the entries drawn freely before or after the
\* text files
ListingOf(directory) ==
    LET crowd == [i \in 1..directory.crowd |-> TextFile]
    IN  IF directory.crowd_first THEN crowd \o directory.entries
        ELSE directory.entries \o crowd

GrepInit ==
    /\ ManagerIdle
    /\ NormalizerIdle
    /\ ToolboxIdle
    /\ TranslationIdle
    /\ LifecycleIdle
    /\ SettingsIdle
    /\ search \in
          {<<[entries |-> e, crowd |-> c, crowd_first |-> f, pattern |-> <<"x">>,
              path |-> <<".">>]>> :
              e \in UNION {[1..n -> PathEntries] : n \in 0..MaxEntries},
              c \in Crowds, f \in BOOLEAN}

\* grep_files(pattern, path, cwd) on an existing directory: lines 160-162
GrepFiles ==
    /\ Len(search) = 1
    /\ search' = Append(search, [i |-> 1, files_scanned |-> 0, matches |-> 0,
                                 broke |-> FALSE, largest |-> 0,
                                 returned |-> FALSE, text |-> <<>>])
    /\ UNCHANGED <<manager, normalizer, toolbox, translation, lifecycle, settings>>

Walking ==
    /\ Len(search) = 2
    /\ ~search[2].returned
    /\ ~search[2].broke
    /\ search[2].i <= Len(ListingOf(search[1]))

\* the loop takes its next entry
GrepTurn ==
    /\ Walking
    /\ search' = [search EXCEPT ![2] =
                     [Turn(ListingOf(search[1])[search[2].i], search[2])
                         EXCEPT !.i = @ + 1]]
    /\ UNCHANGED <<manager, normalizer, toolbox, translation, lifecycle, settings>>

\* the loop is over: lines 198-204
GrepReturns ==
    /\ Len(search) = 2
    /\ ~search[2].returned
    /\ ~Walking
    /\ search' = [search EXCEPT ![2].returned = TRUE,
                                ![2].text = grep_result(search[1].pattern,
                                                        search[1].path, search[2])]
    /\ UNCHANGED <<manager, normalizer, toolbox, translation, lifecycle, settings>>

GrepNext == GrepFiles \/ GrepTurn \/ GrepReturns

GrepSpec == GrepInit /\ [][GrepNext]_vars

\* ------------------------------- list_directory and search_files on their own
MAX_LIST_DEPTH == 3

\* The directory listed, by levels: level k + 1 is the one subdirectory of
\* level k; a level has so many files and maybe a hidden entry; iterdir of
\* level denied_at raises PermissionError (0: of none).
Level(files, hidden) == [files |-> files, hidden |-> hidden]

Levels == {Level(files, hidden) : files \in {0, 1, MAX_SEARCH_RESULTS + 1},
                                  hidden \in BOOLEAN}

\* sorted(dir_path.iterdir(), key=...): the directories, then the files
IterDir(tree, k) ==
    (IF k < Len(tree) THEN <<"dir">> ELSE <<>>)
        \o (IF tree[k].hidden THEN <<"hidden">> ELSE <<>>)
        \o [i \in 1..tree[k].files |-> "file"]

Shown(entry) == entry # "hidden"

\* the line of an entry: its prefix is two blanks per level under the first
Line(kind, current_depth) == [kind |-> kind, level |-> current_depth]

\* _walk(dir_path, current_depth, prefix) for the directory of level
\* current_depth: the lines it appends
RECURSIVE _walk(_, _, _, _)
_walk(tree, denied_at, depth, current_depth) ==
    IF current_depth > depth
    THEN <<>>
    ELSE IF denied_at = current_depth
    THEN <<Line("denied", current_depth)>>
    ELSE LET entries == SelectSeq(IterDir(tree, current_depth), Shown)
             below == IF current_depth < depth
                      THEN _walk(tree, denied_at, depth, current_depth + 1)
                      ELSE <<>>
         IN  IF entries # <<>> /\ entries[1] = "dir"
             THEN <<Line("dir", current_depth)>> \o below
                      \o [i \in 1..(Len(entries) - 1) |-> Line("file", current_depth)]
             ELSE [i \in 1..Len(entries) |-> Line("file", current_depth)]

\* what a listing or a search returned: its lines, and the marker after them
Listed(lines, marker) == [lines |-> lines, marker |-> marker]

\* list_directory from line 83 on, for an existing directory
list_walk(tree, denied_at, depth) ==
    Listed(_walk(tree, denied_at,
                 IF depth < MAX_LIST_DEPTH THEN depth ELSE MAX_LIST_DEPTH, 1),
           <<>>)

\* the loop of lines 128-142 from the i-th match of glob.iglob on
RECURSIVE Collect(_, _, _)
Collect(globbed, i, matches) ==
    IF i > Len(globbed)
    THEN matches
    ELSE IF ~Shown(globbed[i])
    THEN Collect(globbed, i + 1, matches)
    ELSE LET more == Append(matches, Line("file", 1))
         IN  IF Len(more) >= MAX_SEARCH_RESULTS THEN more
             ELSE Collect(globbed, i + 1, more)

TruncatedResults ==
    <<"\n", "\n", "[", "T", "r", "u", "n", "c", "a", "t", "e", "d", ":", " ", "s", "h", "o", "w", "i", "n", "g", " ", "f", "i", "r", "s", "t", " ", "5", "0", " ", "r", "e", "s", "u", "l", "t", "s", "]">>

\* search_files from line 125 on, for an existing directory
search_walk(globbed) ==
    LET matches == Collect(globbed, 1, <<>>)
    IN  Listed(matches,
               IF Len(matches) = MAX_SEARCH_RESULTS THEN TruncatedResults ELSE <<>>)

\* glob.iglob(search_pattern, recursive=True): so many matches, a hidden one
\* before or after them
Globbed(glob) ==
    LET plain == [i \in 1..glob.plain |-> "file"]
        hidden == IF glob.hidden THEN <<"hidden">> ELSE <<>>
    IN  IF glob.hidden_first THEN hidden \o plain ELSE plain \o hidden

NoGlob == [plain |-> 0, hidden |-> FALSE, hidden_first |-> FALSE]

ListInit ==
    /\ ManagerIdle
    /\ NormalizerIdle
    /\ TranslationIdle
    /\ LifecycleIdle
    /\ SettingsIdle
    /\ SearchIdle
    /\ toolbox \in
          {<<[name |-> "list_directory", tree |-> t, denied_at |-> d, depth |-> a,
              glob |-> NoGlob]>> :
              t \in UNION {[1..n -> Levels] : n \in 1..MaxLevels},
              d \in {0, 1, 2}, a \in {0, 1, MAX_LIST_DEPTH, MAX_LIST_DEPTH + 2}}
          \cup
          {<<[name |-> "search_files", tree |-> <<>>, denied_at |-> 0, depth |-> 0,
              glob |-> [plain |-> p, hidden |-> h, hidden_first |-> f]]>> :
              p \in {0, 1, MAX_SEARCH_RESULTS - 1, MAX_SEARCH_RESULTS,
                     MAX_SEARCH_RESULTS + 1},
              h \in BOOLEAN, f \in BOOLEAN}

\* list_directory(path, cwd, depth): the call and what it returned
ListDirectory ==
    /\ Len(toolbox) = 1
    /\ toolbox[1].name = "list_directory"
    /\ toolbox' = Append(toolbox, list_walk(toolbox[1].tree, toolbox[1].denied_at,
                                            toolbox[1].depth))
    /\ UNCHANGED <<manager, normalizer, translation, lifecycle, settings, search>>

\* search_files(pattern, path, cwd): the call and what it returned
SearchFiles ==
    /\ Len(toolbox) = 1
    /\ toolbox[1].name = "search_files"
    /\ toolbox' = Append(toolbox, search_walk(Globbed(toolbox[1].glob)))
    /\ UNCHANGED <<manager, normalizer, translation, lifecycle, settings, search>>

ListNext == ListDirectory \/ SearchFiles

\* one of the three operations that list, search or grep
CapsInit == ListInit \/ GrepInit

CapsNext == ListNext \/ GrepNext

CapsSpec == CapsInit /\ [][CapsNext]_vars

\* ------------------------------------- one response in the loop, on its own
\* What a provider may hand back to the loop of LLMManager.generate, any
\* provider that may stand in self.providers: shape is "str" (text is the
\* string), "dict", "NoneType", "list", or "raise" (text is the message of
\* the exception).  Of a dict, has_text_content and has_tool_calls tell
\* whether the keys are there; a tool-call entry is a dict [id, name,
\* input] where Absent and the type "missing" stand for a key that is not
\* there.
Response(shape, text, has_text_content, text_content, has_tool_calls, calls) ==
    [shape |-> shape, text |-> text, has_text_content |-> has_text_content,
     text_content |-> text_content, has_tool_calls |-> has_tool_calls,
     tool_calls |-> calls]

ToolCallEntries ==
    [id : {"call_1", Nil, Absent},
     name : {"read_file", Nil, Absent},
     input : {Json("dict", <<".">>), Json("missing", <<>>)}]

ProviderResponses ==
    {Response("str", t, FALSE, <<>>, FALSE, <<>>) : t \in Texts}
    \cup {Response("raise", e, FALSE, <<>>, FALSE, <<>>) : e \in ProviderErrors}
    \cup {Response(o, <<>>, FALSE, <<>>, FALSE, <<>>) : o \in {"NoneType", "list"}}
    \cup {Response("dict", <<>>, FALSE, <<>>, h, <<>>) : h \in BOOLEAN}
    \cup {Response("dict", <<>>, TRUE, t, h, <<>>) : t \in {None} \cup Texts, h \in BOOLEAN}
    \cup {Response("dict", <<>>, TRUE, t, TRUE, l) :
             t \in Texts, l \in UNION {[1..n -> ToolCallEntries] : n \in 1..MaxCalls}}

\* what the executor given does when called: "none" is tool_handler=None
ExecutorBehaviours == {"none", "returns", "raises"}

NotCallable == <<"'", "N", "o", "n", "e", "T", "y", "p", "e", "'", " ", "o", "b", "j", "e", "c", "t", " ", "i", "s", " ", "n", "o", "t", " ", "c", "a", "l", "l", "a", "b", "l", "e">>

ExecutorFailure == <<"b", "o", "o", "m">>

\* str(response) of the shapes that are not str
ReprOf(response) ==
    CASE response.shape = "NoneType" -> None
      [] response.shape = "list" -> <<"[", "]">>
      [] response.has_tool_calls -> <<"{", "'", "t", "o", "o", "l", "_", "c", "a", "l", "l", "s", "'", ":", " ", "[", "]", "}">>
      [] OTHER -> <<"{", "}">>

\* How the handling of one response ends: kind is "return" (type is the
\* type of the value, text the value if it is a str), "raise" or
\* "continue"; appended is what the round appended to the conversation.
Handled(kind, exception, type, text, appended) ==
    [kind |-> kind, exception |-> exception, type |-> type, text |-> text,
     appended |-> appended]

\* the try block of one tool call: the message of the exception it ends
\* with, <<>> if the tool message was appended
Tried(tc, executor) ==
    IF tc.name = Absent THEN <<"'", "n", "a", "m", "e", "'">>
    ELSE IF tc.input.type = "missing" THEN <<"'", "i", "n", "p", "u", "t", "'">>
    ELSE IF executor = "none" THEN NotCallable
    ELSE IF executor = "raises" THEN ExecutorFailure
    ELSE IF tc.id = Absent THEN <<"'", "i", "d", "'">>
    ELSE <<>>

\* for tc in tool_calls: the tool messages appended, and the round ends
\* with "raise" where the except arm itself fails on tc['name'] or tc["id"]
RECURSIVE ExecuteAll(_, _, _, _)
ExecuteAll(calls, i, executor, appended) ==
    IF i > Len(calls) THEN Handled("continue", "", "", <<>>, appended)
    ELSE LET tc == calls[i]
             failed == Tried(tc, executor)
         IN  IF failed = <<>>
             THEN ExecuteAll(calls, i + 1, executor,
                             Append(appended, ToolMsg(tc, <<"o", "k">>)))
             ELSE IF tc.name = Absent \/ tc.id = Absent
             THEN Handled("raise", "KeyError", "", <<>>, appended)
             ELSE ExecuteAll(calls, i + 1, executor,
                             Append(appended, ToolMsg(tc, ToolErrorPrefix \o failed)))

\* the body of the loop of generate from the provider call on
handle_response(response, executor) ==
    CASE response.shape = "raise" ->
            Handled("return", "", "str", ErrorPrefix \o response.text, <<>>)
      [] response.shape = "str" ->
            Handled("return", "", "str", response.text, <<>>)
      [] response.shape = "dict" /\ response.tool_calls # <<>> ->
            ExecuteAll(response.tool_calls, 1, executor,
                       <<[role |-> "assistant",
                          content |-> IF response.text_content = <<>> THEN None
                                      ELSE response.text_content,
                          tool_calls |-> response.tool_calls,
                          tool_call_id |-> Absent]>>)
      [] response.shape = "dict" /\ response.has_text_content ->
            IF response.text_content = None
            THEN Handled("return", "", "NoneType", <<>>, <<>>)
            ELSE Handled("return", "", "str", response.text_content, <<>>)
      [] OTHER -> Handled("return", "", "str", ReprOf(response), <<>>)

\* generate has a response in hand
ResponseInit ==
    /\ ManagerIdle
    /\ NormalizerIdle
    /\ ToolboxIdle
    /\ LifecycleIdle
    /\ SettingsIdle
    /\ SearchIdle
    /\ translation \in {<<[response |-> r, executor |-> x]>> :
                            r \in ProviderResponses, x \in ExecutorBehaviours}

HandleResponse ==
    /\ Len(translation) = 1
    /\ translation' = Append(translation, handle_response(translation[1].response,
                                                          translation[1].executor))
    /\ UNCHANGED <<manager, normalizer, toolbox, lifecycle, settings, search>>

LoopInit == Init \/ ResponseInit

LoopNext == Next \/ HandleResponse

LoopSpec == LoopInit /\ [][LoopNext]_vars

\* ------------------------------------------------------------ vocabulary
Returned == pc = "done"

\* The rounds whose provider call came back with tool calls.
ToolRounds == {i \in DOMAIN responses : responses[i].kind = "tool_calls"}

\* Every one of the max_iterations rounds came back with tool calls.
Exhausted ==
    /\ Len(responses) >= max_iterations
    /\ \A i \in 1..max_iterations : i \in ToolRounds

Count(s, P(_)) == Cardinality({i \in DOMAIN s : P(s[i])})

IsToolMsg(m) == m.role = "tool"

IsFinalPrompt(m) == m = UserMsg(FinalPrompt)

\* --------------------------------------------------------------------- C1
\* C1: generate makes at most max_iterations + 1 calls of provider.generate
\* and, every awaited call coming back, it returns.
C1_Terminates ==
    /\ [](Len(requests) <= max_iterations + 1)
    /\ <>Returned

\* a run that used the whole budget, with a tool that raised on the way
C1_Witness ==
    /\ Returned
    /\ Len(requests) = max_iterations + 1
    /\ \E j \in DOMAIN outcomes : outcomes[j].kind = "raise"

\* --------------------------------------------------------------------- C2
\* C2: when every round came back with tool calls, generate appends exactly
\* one synthetic user message, makes exactly one more provider call, with
\* tools disabled, executes no tool after that message, and returns the
\* text of that call, or the error-flagged string if that call raised.
C2_ForcedFinal ==
    Exhausted =>
        /\ Len(requests) <= max_iterations + 1
        /\ pc \in {"tools", "tool", "loop"} =>
              /\ Len(requests) = max_iterations
              /\ Count(conversation, IsFinalPrompt) = 0
        /\ pc \in {"final", "done"} =>
              /\ Len(requests) = max_iterations + 1
              /\ Last(requests).tools = NoTools
              /\ Last(requests).messages = conversation
              /\ Count(conversation, IsFinalPrompt) = 1
              /\ IsFinalPrompt(Last(conversation))
              /\ IsToolMsg(conversation[Len(conversation) - 1])
              /\ Count(conversation, IsToolMsg) = Len(executed)
              /\ Len(outcomes) = Len(executed)
        /\ pc = "final" => pending = {ProviderCall} /\ result = None
        /\ pc = "done" =>
              /\ Len(responses) = max_iterations + 1
              /\ pending = {}
              /\ Last(responses).kind \in {"text", "raise"}
              /\ Last(responses).kind = "text" => result = Last(responses).text
              /\ Last(responses).kind = "raise" =>
                    result = FinalErrorPrefix \o Last(responses).text

\* max_iterations = 1, an immediate tool request, and the forced answer
C2_Witness ==
    /\ Exhausted
    /\ max_iterations = 1
    /\ Returned
    /\ result = <<"l", "s">>

\* --------------------------------------------------------------------- C3
\* C3: a text response in round k ends generate with exactly that text:
\* no later provider call, no tool executed and nothing appended in round k.
C3_TextEndsLoop ==
    \A k \in DOMAIN responses :
        (k <= max_iterations /\ responses[k].kind = "text") =>
            /\ Returned
            /\ result = responses[k].text
            /\ Len(requests) = k
            /\ Len(responses) = k
            /\ pending = {}
            /\ conversation = requests[k].messages
            /\ \A j \in DOMAIN executed : executed[j].iteration < k - 1

\* a text answer in the second round, after a round of tool calls
C3_Witness ==
    /\ Len(responses) = 2
    /\ max_iterations >= 2
    /\ responses[2].kind = "text"
    /\ responses[2].text # <<>>

\* --------------------------------------------------------------------- C4
\* C4: a provider call that raises ends generate at once with an
\* error-flagged result: no retry, no later provider call, no tool executed
\* afterwards; and each round makes exactly one provider call.
C4_ProviderFailureAborts ==
    /\ \A i \in DOMAIN requests : requests[i].iteration = i - 1
    /\ Len(requests) - Len(responses) \in {0, 1}
    /\ \A k \in DOMAIN responses :
          responses[k].kind = "raise" =>
              /\ Returned
              /\ Len(requests) = k
              /\ Len(responses) = k
              /\ pending = {}
              /\ result = (IF k <= max_iterations THEN ErrorPrefix ELSE FinalErrorPrefix)
                              \o responses[k].text
              /\ Head(result) = "#"
              /\ conversation = requests[k].messages
              /\ \A j \in DOMAIN executed : executed[j].iteration < k - 1

\* the provider fails in the second round, after a round of tool calls
C4_Witness ==
    /\ Len(responses) = 2
    /\ max_iterations >= 2
    /\ responses[2].kind = "raise"

\* --------------------------------------------------------------------- C5
Min(a, b) == IF a <= b THEN a ELSE b

Max(a, b) == IF a >= b THEN a ELSE b

\* The number of tool calls requested in the rounds before round i.
RECURSIVE CallsBefore(_)
CallsBefore(i) ==
    IF i <= 1 THEN 0 ELSE CallsBefore(i - 1) + Len(responses[i - 1].tool_calls)

\* The number of tool calls of round i that have come back.
CallsDone(i) ==
    Min(Len(responses[i].tool_calls), Max(0, Len(outcomes) - CallsBefore(i)))

\* What a tool call that ended as o leaves in its tool message.
ToolContent(o) == IF o.kind = "result" THEN o.value ELSE ToolErrorPrefix \o o.value

\* What round i is to have appended so far: one assistant message, then
\* one tool message per call that has come back, in request order.
RoundMsgs(i) ==
    IF i \notin ToolRounds THEN <<>>
    ELSE LET calls == responses[i].tool_calls
         IN  <<AssistantMsg(responses[i].text, calls)>> \o
             [k \in 1..CallsDone(i) |->
                 ToolMsg(calls[k], ToolContent(outcomes[CallsBefore(i) + k]))]

RECURSIVE RoundsMsgs(_)
RoundsMsgs(i) == IF i = 0 THEN <<>> ELSE RoundsMsgs(i - 1) \o RoundMsgs(i)

InLoop == pc \in {"loop", "generate", "tools", "tool"}

\* C5: a response with n tool calls appends one assistant message with
\* the response text and the n calls, then the handler is invoked once per
\* call, in request order, one tool message following each call; the
\* round adds n + 1 messages and no call is run twice or skipped.
C5_RoundShape ==
    (pc # "start" /\ GROQ \in providers) =>
        /\ IsPrefix(messages \o RoundsMsgs(Len(responses)), conversation)
        /\ InLoop => conversation = messages \o RoundsMsgs(Len(responses))
        /\ \A j \in DOMAIN executed :
              \E i \in ToolRounds :
                  LET k == j - CallsBefore(i)
                  IN  /\ k \in 1..Len(responses[i].tool_calls)
                      /\ executed[j] = [iteration |-> i - 1, index |-> k,
                                        call |-> responses[i].tool_calls[k]]
        /\ Len(executed) - Len(outcomes) = (IF pc = "tool" THEN 1 ELSE 0)
        /\ pc = "tools" => Len(executed) = CallsBefore(Len(responses)) + tc_idx - 1
        /\ pc \notin {"tools", "tool"} => Len(executed) = CallsBefore(Len(responses) + 1)
        /\ \A i \in ToolRounds :
              Len(requests) > i =>
                  Len(requests[i + 1].messages) =
                      Len(requests[i].messages) + Len(responses[i].tool_calls) + 1
                          + (IF i = max_iterations THEN 1 ELSE 0)

\* a round of two tool calls is over and the next request has been sent
C5_Witness ==
    /\ Len(requests) = 2
    /\ max_iterations = 2
    /\ Len(responses[1].tool_calls) = 2
    /\ responses[1].text # <<>>

\* --------------------------------------------------------------------- C6
\* The entries of assistant messages before position j whose id is the
\* tool_call_id of the message at j.
PriorEntries(j) ==
    {e \in UNION {{<<a, k>> : k \in DOMAIN conversation[a].tool_calls} : a \in 1..(j - 1)} :
        /\ conversation[e[1]].role = "assistant"
        /\ conversation[e[1]].tool_calls[e[2]].id = conversation[j].tool_call_id}

ToolMsgAt == {j \in DOMAIN conversation : IsToolMsg(conversation[j])}

EntryBefore(e, f) == e[1] < f[1] \/ (e[1] = f[1] /\ e[2] < f[2])

\* C6 as claimed: the tool_call_id of each tool message is the id of
\* exactly one tool_calls entry of a prior assistant message, and the tool
\* messages come in the order of the entries they answer.
C6_ExactlyOnePriorEntry ==
    /\ \A j \in ToolMsgAt : Cardinality(PriorEntries(j)) = 1
    /\ \A j1, j2 \in ToolMsgAt :
          j1 < j2 =>
              \A e \in PriorEntries(j1), f \in PriorEntries(j2) : EntryBefore(e, f)

\* The last assistant message before position j.
AssistantBefore(j) ==
    LET A == {a \in 1..(j - 1) : conversation[a].role = "assistant"}
    IN  IF A = {} THEN 0 ELSE CHOOSE a \in A : \A b \in A : b <= a

\* C6 as amended: each tool message answers, by position, an entry of the
\* nearest assistant message before it: the k-th message after that
\* assistant message carries the id of its k-th tool_calls entry.
C6_AnswersByPosition ==
    \A j \in ToolMsgAt :
        LET a == AssistantBefore(j)
        IN  /\ a > 0
            /\ j - a \in DOMAIN conversation[a].tool_calls
            /\ conversation[j].tool_call_id = conversation[a].tool_calls[j - a].id
            /\ <<a, j - a>> \in PriorEntries(j)

\* two rounds whose tool calls carry the same id
C6_Witness ==
    /\ Cardinality(ToolMsgAt) >= 3
    /\ \E j \in ToolMsgAt : Cardinality(PriorEntries(j)) > 1

\* --------------------------------------------------------------------- C7
\* Every tool call of every assistant message of msgs is answered in msgs.
AllAnswered(msgs) ==
    \A a \in DOMAIN msgs :
        msgs[a].role = "assistant" =>
            \A k \in DOMAIN msgs[a].tool_calls :
                /\ a + k <= Len(msgs)
                /\ msgs[a + k].role = "tool"
                /\ msgs[a + k].tool_call_id = msgs[a].tool_calls[k].id

\* C7: the conversation of every provider.generate call holds a tool
\* message for every tool call of every assistant message in it.
C7_NoUnansweredCallSent ==
    /\ \A i \in DOMAIN requests : AllAnswered(requests[i].messages)
    /\ ProviderCall \in pending => AllAnswered(conversation)

\* a request sent after a round in which a tool raised
C7_Witness ==
    /\ ProviderCall \in pending
    /\ Len(requests) >= 2
    /\ \E j \in DOMAIN outcomes : outcomes[j].kind = "raise"
    /\ \E a \in DOMAIN conversation : Len(conversation[a].tool_calls) = 2

\* --------------------------------------------------------------------- C8
\* The position in the conversation of the tool message of the j-th
\* tool call made.
ToolMsgPos(j) ==
    Len(requests[executed[j].iteration + 1].messages) + 1 + executed[j].index

\* C8: a tool call that raises leaves a tool message with the error text;
\* the other calls of its round still run and the loop goes on: by itself
\* a tool failure neither ends generate nor flags its result.
C8_ToolFailureIsLocal ==
    /\ [](\A j \in DOMAIN outcomes :
             outcomes[j].kind = "raise" =>
                 LET i == executed[j].iteration + 1
                     n == Len(responses[i].tool_calls)
                 IN  /\ ToolMsgPos(j) \in DOMAIN conversation
                     /\ conversation[ToolMsgPos(j)] =
                            ToolMsg(executed[j].call, ToolErrorPrefix \o outcomes[j].value)
                     /\ (iteration >= i \/ Returned) =>
                            \A k \in 1..n :
                                /\ CallsBefore(i) + k \in DOMAIN outcomes
                                /\ executed[CallsBefore(i) + k].index = k
                                /\ executed[CallsBefore(i) + k].iteration = i - 1
                     /\ Returned =>
                            /\ Len(requests) > i
                            /\ result = (IF Last(responses).kind = "text"
                                         THEN Last(responses).text
                                         ELSE (IF Len(responses) <= max_iterations
                                               THEN ErrorPrefix ELSE FinalErrorPrefix)
                                                  \o Last(responses).text))
    /\ [][(Len(outcomes') > Len(outcomes) /\ Last(outcomes').kind = "raise") =>
             /\ result' = None
             /\ IF tc_idx < Len(tool_calls)
                THEN pc' = "tools" /\ tc_idx' = tc_idx + 1 /\ iteration' = iteration
                ELSE pc' = "loop" /\ iteration' = iteration + 1]_vars

\* the first of two tool calls raised, the second ran, the next round began
C8_Witness ==
    /\ Len(outcomes) >= 2
    /\ outcomes[1].kind = "raise"
    /\ executed[1].iteration = 0
    /\ executed[2].iteration = 0
    /\ Len(requests) >= 2

\* --------------------------------------------------------------------- C9
\* C9: the conversation only grows at its end: every step leaves the
\* history it had as a prefix of the one it has, and so what each provider
\* call was sent is a prefix of every later history.
C9_AppendOnly ==
    /\ [][IsPrefix(conversation, conversation')]_vars
    /\ [](\A i \in DOMAIN requests : IsPrefix(requests[i].messages, conversation))

\* a forced final call after two rounds of tool calls
C9_Witness ==
    /\ pc = "final"
    /\ Len(conversation) >= 6

\* -------------------------------------------------------------------- C10
\* C10: at most one awaited call is outstanding at any time; a provider
\* call starts only when every earlier provider call has come back and
\* every tool call requested so far has run, come back and left its tool
\* message in the history.
C10_StrictlySequential ==
    /\ Cardinality(pending) <= 1
    /\ (pending = {}) = (pc \notin {"generate", "tool", "final"})
    /\ ProviderCall \in pending =>
          /\ Len(responses) = Len(requests) - 1
          /\ Len(executed) = CallsBefore(Len(requests))
          /\ Len(outcomes) = Len(executed)
          /\ Count(Last(requests).messages, IsToolMsg) = Len(executed)
    /\ \A t \in pending \ {ProviderCall} :
          /\ t = ToolCallAt(tc_idx)
          /\ Len(responses) = Len(requests)
          /\ Len(outcomes) = CallsBefore(Len(responses)) + tc_idx - 1
          /\ Len(executed) = Len(outcomes) + 1

\* the second tool call of the second round is running
C10_Witness ==
    /\ ToolCallAt(2) \in pending
    /\ iteration = 1

\* -------------------------------------------------------------------- C11
\* C11: every provider call made inside the loop carries the caller's tool
\* schemas when a tool executor was supplied and none when it was not; and
\* without an executor no call at all carries a schema, no tool is run, and
\* generate returns after exactly one provider call.
C11_SchemasIffExecutor ==
    /\ \A i \in DOMAIN requests :
          i <= max_iterations =>
             /\ requests[i].tools = (IF tool_handler THEN tools ELSE NoTools)
             /\ tools # NoTools => ((requests[i].tools # NoTools) <=> tool_handler)
    /\ ~tool_handler =>
          /\ \A i \in DOMAIN requests : requests[i].tools = NoTools
          /\ executed = <<>>
          /\ Len(requests) <= 1
          /\ (Returned /\ GROQ \in providers) => Len(requests) = 1

\* schemas were passed without an executor and the one call answered in text
C11_Witness ==
    /\ ~tool_handler
    /\ tools = TOOL_SCHEMAS
    /\ Returned
    /\ Len(requests) = 1
    /\ responses[1].kind = "text"

\* -------------------------------------------------------------------- C12
Contains(s, p) == \E i \in 1..(Len(s) - Len(p) + 1) : SubSeq(s, i, i + Len(p) - 1) = p

OneLine(s) == ~Contains(s, <<"\n">>)

\* generate ended in a failure it does not recover from: no provider, or
\* a provider call, in a round or the forced final one, that raised
Failed ==
    /\ Returned
    /\ \/ GROQ \notin providers
       \/ \E i \in DOMAIN responses : responses[i].kind = "raise"

\* C12: whenever process_query ends in an unrecoverable failure, what it
\* returns, the error text having gone through _clean_command, is a single
\* line that begins with "#", whatever the error message is.
C12_FailureIsOneCommentLine ==
    (agent = "returned" /\ Failed) =>
        /\ StartsWith(output, CommentMarker)
        /\ OneLine(output)

\* -------------------------------------------------------------------- C13
\* C13: with no credential configured, the manager is constructed and
\* initialized all the same, its registry holds no provider, and generate
\* returns the error-flagged "provider not available" text without a
\* provider call and without running a tool.
C13_NoCredentialNoProvider ==
    (GROQ_API_KEY \in {None, <<>>}) =>
        /\ providers = {}
        /\ ~client
        /\ requests = <<>>
        /\ executed = <<>>
        /\ pc \in {"start", "done"}
        /\ Returned =>
              /\ result = ErrorPrefix \o GROQ \o NotAvailableSuffix
              /\ StartsWith(result, CommentMarker)

\* generate has returned on a manager built with an empty key
C13_Witness ==
    /\ GROQ_API_KEY = <<>>
    /\ agent = "initialized"
    /\ Returned

\* -------------------------------------------------------------------- C14
\* C14: a registered provider whose initialize() did not succeed is never
\* used against the remote endpoint: initialization goes on, and every
\* generate on it makes one provider call, which sends nothing and fails,
\* and returns an error-flagged text.
C14_FailedInitializeIsUnusable ==
    (agent = "initialized" /\ GROQ \in providers /\ ~client) =>
        /\ \A i \in DOMAIN requests : ~requests[i].remote
        /\ \A i \in DOMAIN responses : responses[i].kind = "raise"
        /\ Len(requests) <= 1
        /\ executed = <<>>
        /\ Returned =>
              /\ Len(requests) = 1
              /\ result = ErrorPrefix \o NotInitialized
              /\ StartsWith(result, CommentMarker)

\* generate has returned on a provider whose initialize() returned False
C14_Witness ==
    /\ agent = "initialized"
    /\ GROQ \in providers
    /\ ~client
    /\ Returned
    /\ Len(responses) = 1

\* -------------------------------------------------------------------- C17
\* C17: _clean_command is idempotent: applied to its own output it
\* returns that output.
C17_Idempotent ==
    Len(normalizer.outputs) >= 2 => normalizer.outputs[2] = normalizer.outputs[1]

\* -------------------------------------------------------------------- C18
HasFunctionCall(s) == \E i \in DOMAIN s : MatchFunctionCall(SubSeq(s, i, Len(s))) > 0

\* C18: whatever text the provider returns, what _clean_command makes of
\* it holds no triple backticks, does not start with "$ ", holds no
\* function-call markup and is not empty.
C18_BareCommand ==
    normalizer.outputs # <<>> =>
        /\ ~Contains(normalizer.outputs[1], Fence)
        /\ ~StartsWith(normalizer.outputs[1], PromptMarker)
        /\ ~HasFunctionCall(normalizer.outputs[1])
        /\ normalizer.outputs[1] # <<>>

\* -------------------------------------------------------------------- C19
\* a command on one line: no white space around it, no backtick, no
\* function-call markup, no prompt marker in front
IsCommand(c) ==
    /\ c # <<>>
    /\ Strip(c) = c
    /\ OneLine(c)
    /\ ~Contains(c, <<Backtick>>)
    /\ ~HasFunctionCall(c)
    /\ ~StartsWith(c, PromptMarker)

\* what stands between before and after in the input, None if the input
\* is not of that shape
Inside(before, after) ==
    IF /\ Len(normalizer.input) > Len(before) + Len(after)
       /\ StartsWith(normalizer.input, before)
       /\ EndsWith(normalizer.input, after)
    THEN SubSeq(normalizer.input, Len(before) + 1, Len(normalizer.input) - Len(after))
    ELSE None

\* the input is c between an opening and a closing fence line
FencedBlock(c) == c = Inside(Fence \o <<"\n">>, <<"\n">> \o Fence)

\* the input is c between two backticks
Backticked(c) == c = Inside(<<Backtick>>, <<Backtick>>)

\* C19: a fenced block whose only inner line is a command is normalized to
\* that command, and a one-line text wrapped in backticks to the text
\* without the backticks.
C19_UnwrapsCommand ==
    normalizer.outputs # <<>> =>
        \A c \in {Inside(Fence \o <<"\n">>, <<"\n">> \o Fence),
                  Inside(<<Backtick>>, <<Backtick>>)} :
            (c # None /\ IsCommand(c)) => normalizer.outputs[1] = c

\* the fenced block of a command of two words has been normalized
C19_Witness ==
    /\ FencedBlock(<<"l", "s", " ", "l", "s">>)
    /\ normalizer.outputs = <<(<<"l", "s", " ", "l", "s">>)>>

\* -------------------------------------------------------------------- C20
\* the lines that remain when the selection of the line starts
Remaining ==
    SolidLines(Unprompt(RemoveFunctionCalls(Unquote(Unfence(Strip(normalizer.input))))))

\* the positions of the lines that are not comment-prefixed or are the
\* final line
Eligible ==
    {i \in DOMAIN Remaining :
        ~StartsWith(Remaining[i], CommentMarker) \/ i = Len(Remaining)}

Called == toolbox[1]

Ended == toolbox[2]

\* the path the tool of the call resolves: the one given, or the default
\* of the tools that have one
PathOf(call) ==
    IF call.name \in {"read_file", "read_lines"}
    THEN call.args.path
    ELSE Get(call.args, "path", ArgStr(<<".">>))

\* the target is the working directory or below it, name by name
InSubtree(path_str, cwd) == IsPrefix(Resolve(<<>>, Parts(cwd)), TargetNames(path_str, cwd))

IsErrorString(o) == o.kind = "return" /\ StartsWith(o.text, ToolErrorPrefix)

\* C15: every file-system tool called with a path that resolves outside
\* the subtree of the working directory returns an error string and reads
\* nothing of the target.
C15_OutsideIsRefusedUnread ==
    (/\ Len(toolbox) = 2
     /\ Called.name # "nosuch"
     /\ Called.args.mapping
     /\ PathOf(Called).type = "str"
     /\ ~InSubtree(PathOf(Called).str, Cwd)) =>
        /\ IsErrorString(Ended)
        /\ Ended.reads = {}

\* -------------------------------------------------------------------- C16
\* C16: execute_tool returns a string and never raises, whatever the tool
\* name and the arguments: missing or wrongly typed ones, arguments that
\* are not a mapping, paths that are blocked, missing, binary or too large.
C16_AlwaysReturnsString ==
    Len(toolbox) = 2 => Ended.kind = "return"

\* -------------------------------------------------------------------- C21
SystemCount(msgs) == Cardinality({i \in DOMAIN msgs : msgs[i].role = "system"})

\* a system prompt is given: a string that is not empty
Given(prompt) == prompt # None /\ prompt # <<>>

AssistantPos(k) == Len(messages) + Len(RoundsMsgs(k - 1)) + 1

WithToolCalls(m) == m.role = "assistant" /\ m.tool_calls # <<>>

\* C22: an assistant message with tool calls never has the empty string
\* as content, in the history generate builds and in the wire lists sent;
\* where the response had no text with its tool calls, the content is None
\* in both.
C22_NoEmptyContentWithToolCalls ==
    /\ \A i \in DOMAIN conversation :
          WithToolCalls(conversation[i]) => conversation[i].content # <<>>
    /\ \A j \in DOMAIN requests : \A i \in DOMAIN requests[j].wire :
          WithToolCalls(requests[j].wire[i]) => requests[j].wire[i].content # <<>>
    /\ \A k \in ToolRounds :
          responses[k].text = <<>> =>
              /\ WithToolCalls(conversation[AssistantPos(k)])
              /\ conversation[AssistantPos(k)].content = None
              /\ \A j \in DOMAIN requests :
                    (j > k /\ requests[j].remote) =>
                        LET sent == requests[j].wire
                            at == AssistantPos(k) + Len(sent) - Len(requests[j].messages)
                        IN  WithToolCalls(sent[at]) /\ sent[at].content = None
    /\ Len(translation) = 2 =>
          LET call == translation[1]
              sent == translation[2].sent
              shift == Len(sent) - Len(call.messages)
          IN  \A i \in DOMAIN call.messages :
                  WithToolCalls(call.messages[i]) =>
                      /\ WithToolCalls(sent[i + shift])
                      /\ sent[i + shift].content # <<>>
                      /\ call.messages[i].content \in {<<>>, None} =>
                            sent[i + shift].content = None

\* tool calls came without text and the next request has been sent
C22_Witness ==
    \E k \in ToolRounds :
        /\ responses[k].text = <<>>
        /\ Len(requests) > k
        /\ requests[k + 1].remote

\* -------------------------------------------------------------------- C23
\* the call of generate is over and it handed the tool calls of the
\* response to parse_openai_tool_calls
Parsed ==
    /\ Len(translation) = 2
    /\ translation[1].tools # NoTools
    /\ translation[1].response.failure = <<>>
    /\ translation[1].response.tool_calls # <<>>

\* C23: parse_openai_tool_calls never raises: it returns one tool call per
\* wire tool call, in order, the input decoded where the arguments are a
\* JSON document, the arguments as they are where they are not, id and
\* name None where the wire tool call has none.
C23_ParseNeverRaises ==
    Parsed =>
        LET wire_calls == translation[1].response.tool_calls
            out == translation[2]
        IN  /\ out.kind = "tool_calls"
            /\ Len(out.tool_calls) = Len(wire_calls)
            /\ \A i \in DOMAIN wire_calls :
                  LET tc == wire_calls[i]
                      got == out.tool_calls[i]
                  IN  /\ got.id = (IF tc.id = Absent THEN Nil ELSE tc.id)
                      /\ got.name = (IF tc.name = Absent THEN Nil ELSE tc.name)
                      /\ tc.arguments.type = "str" =>
                            IF json_loads(tc.arguments.text).kind = "value"
                            THEN got.input = json_loads(tc.arguments.text).value
                            ELSE got.input = tc.arguments

\* -------------------------------------------------------------------- C24
\* C24: a wire response with neither content nor tool calls makes
\* GroqProvider.generate raise.
C24_NoContentRaises ==
    (/\ Len(translation) = 2
     /\ translation[1].response.failure = <<>>
     /\ translation[1].response.content \in {None, <<>>}
     /\ translation[1].response.tool_calls = <<>>)
        => translation[2].kind = "raise"

\* -------------------------------------------------------------------- C25
\* C25: provider cleanup is idempotent: after any sequence of initialize,
\* generate and cleanup, every cleanup returns without raising and leaves
\* the provider without a client, no client is closed more than once, and a
\* generate that follows a cleanup fails as not initialized, using no
\* client.
C25_CleanupIdempotent ==
    Len(lifecycle) = 1 =>
        LET p == lifecycle[1]
            h == p.history
        IN  /\ \A i \in DOMAIN h :
                   h[i].op = "cleanup" =>
                       /\ h[i].outcome = "returned"
                       /\ h[i].client = 0
                       /\ (i + 1 \in DOMAIN h /\ h[i + 1].op = "generate") =>
                              /\ h[i + 1].outcome = "RuntimeError"
                              /\ h[i + 1].message = NotInitialized
                              /\ h[i + 1].used = 0
            /\ \A k \in DOMAIN p.closes : p.closes[k] <= 1

\* -------------------------------------------------------------------- C26
\* what generate returns after the provider calls that came back
ResultOf(answers) ==
    LET last == Last(answers)
    IN  IF last.kind = "text" THEN last.text
        ELSE (IF Len(answers) <= max_iterations THEN ErrorPrefix ELSE FinalErrorPrefix)
                 \o last.text

\* the history after the provider and tool calls that came back
HistoryOf(answers) ==
    messages \o RoundsMsgs(Len(answers))
        \o (IF Len(requests) > max_iterations THEN <<UserMsg(FinalPrompt)>> ELSE <<>>)

\* C26: whether tracing is off, on, or on and failing, generate ends only
\* by returning, and its provider calls, its tool calls, its history and
\* its result are those the answers of the provider and of the tools
\* determine; with the flag off, or every write failing, nothing is
\* written to the log.
C26_TracingIsInert ==
    /\ debug \in {"off", "failing"} => log = <<>>
    /\ pc # "raised"
    /\ (pc # "start" /\ GROQ \in providers) =>
          /\ conversation = HistoryOf(responses)
          /\ \A i \in DOMAIN requests :
                /\ requests[i].tools = (IF i <= max_iterations THEN ToolsSent ELSE NoTools)
                /\ IsPrefix(requests[i].messages, conversation)
                /\ i < Len(requests) => responses[i].kind = "tool_calls"
          /\ \A j \in DOMAIN executed :
                \E i \in ToolRounds :
                    /\ j - CallsBefore(i) \in DOMAIN responses[i].tool_calls
                    /\ executed[j].call = responses[i].tool_calls[j - CallsBefore(i)]
          /\ Returned => result = ResultOf(responses)

\* every write to the log failed, and generate went through a round of
\* tool calls to its answer
C26_Witness ==
    /\ debug = "failing"
    /\ Returned
    /\ ToolRounds # {}
    /\ result = <<"l", "s">>

\* -------------------------------------------------------------------- C27
\* What the document holds for a key of the configuration.
FileValue(data, key) == IF key = "provider" THEN data.primary ELSE data[key]

Minimum(key) == IF key = "max_file_lines" THEN 10 ELSE 1

\* The value is one the configuration accepts for the key.
Valid(key, value) ==
    CASE key = "provider" -> value.type = "str" /\ value.text \in VALID_PROVIDERS
      [] key = "model" -> value.type = "str" /\ Strip(value.text) # <<>>
      [] key = "debug" -> value.type = "bool"
      [] OTHER -> int(value).raises = "" /\ int(value).val >= Minimum(key)

\* The valid value as the configuration holds it.
Stored(key, value) ==
    CASE key = "provider" -> value.text
      [] key = "model" -> Strip(value.text)
      [] key = "debug" -> value.flag
      [] OTHER -> int(value).val

\* The call made last was a load_config, or a get, that read the file.
FileRead == Len(settings) = 1 /\ settings[1].read

\* C27: load_config never fails and lets no invalid value through: whatever
\* the file is, the call returns, each key with an invalid value is at its
\* default, each key with a valid value has it, and the provider is a known
\* one, max_iterations and history_lines are at least 1 and max_file_lines
\* at least 10.
C27_LoadNeverFails ==
    FileRead =>
        LET data == settings[1].globals.file
            config == settings[1].globals._config[1]
        IN  /\ settings[1].raises = ""
            /\ \A key \in Keys :
                   config[key] = IF Valid(key, FileValue(data, key))
                                 THEN Stored(key, FileValue(data, key))
                                 ELSE DEFAULTS[key]
            /\ config.provider \in VALID_PROVIDERS
            /\ config.max_iterations >= 1
            /\ config.history_lines >= 1
            /\ config.max_file_lines >= 10

\* -------------------------------------------------------------------- C28
\* What a load_config that reads the file makes of it.
ReadOf(file) == IF file.kind = "document" THEN Merge(DEFAULTS, file).config ELSE DEFAULTS

\* C28: the configuration is loaded once and cached: once load_config was
\* called, every load_config and get answers from the values of that load,
\* which no later call but reset changes, whatever the file is changed to;
\* the first load after a reset (or the import) reads the file as it is
\* then.
C28_LoadedOnceAndCached ==
    [][(Len(settings) = 1 /\ Len(settings') = 1) =>
           LET before == settings[1]
               after == settings'[1]
           IN  /\ (before.loaded /\ after.op # "reset") =>
                      /\ after.globals._config = before.globals._config
                      /\ after.op \in {"load_config", "get"} =>
                             /\ after.raises = ""
                             /\ ~after.read
                      /\ after.op = "load_config" =>
                             after.value = before.globals._config
                      /\ after.op = "get" =>
                             after.value = before.globals._config[1][after.key]
               /\ (~before.loaded /\ after.op \in {"load_config", "get"}) =>
                      /\ after.read
                      /\ after.globals._config = <<ReadOf(before.globals.file)>>
               /\ after.op = "reset" => after.globals._config = <<>>]_vars

\* a load_config answered from the cache although the file now reads
\* differently
C28_Witness ==
    /\ Len(settings) = 1
    /\ settings[1].op = "load_config"
    /\ ~settings[1].read
    /\ settings[1].value # <<ReadOf(settings[1].globals.file)>>

\* -------------------------------------------------------------------- C29
\* C29: load_config merges the file with the defaults key by key: a key the
\* file does not set is at its default, a valid key it sets has the file's
\* value, a missing or empty file gives exactly DEFAULTS, and DEFAULTS is
\* never modified.
C29_MergesKeyByKey ==
    Len(settings) = 1 =>
        /\ settings[1].globals.DEFAULTS = DEFAULTS
        /\ FileRead =>
               LET data == settings[1].globals.file
                   config == settings[1].globals._config[1]
               IN  /\ \A key \in Keys :
                          /\ FileValue(data, key) = NotSet =>
                                 config[key] = DEFAULTS[key]
                          /\ Valid(key, FileValue(data, key)) =>
                                 config[key] = Stored(key, FileValue(data, key))
                   /\ (data.kind = "missing" \/ data = Empty) => config = DEFAULTS

\* -------------------------------------------------------------------- C30
\* A file the search reads: not hidden, not under a noise directory, within
\* the size limit and not binary.
Searchable(entry) ==
    /\ entry.parts = "plain"
    /\ entry.is_file
    /\ entry.st_size <= MAX_FILE_SIZE
    /\ ~entry.binary

SearchableIn(listing) == {i \in DOMAIN listing : Searchable(listing[i])}

NoLineMatches(listing) == \A i \in SearchableIn(listing) : listing[i].matching = 0

\* C30: grep_files over a directory in which no line of a file matches
\* returns the non-empty message that there are no matches for the pattern
\* in the path, with the number of files searched, which is the number of the
\* directory's searchable files, or 200 when there are more.
C30_NoMatchesCountsScanned ==
    (Len(search) = 2 /\ search[2].returned /\ NoLineMatches(ListingOf(search[1]))) =>
        /\ search[2].text # <<>>
        /\ search[2].text =
               NoMatches(search[1].pattern, search[1].path,
                         Min(Cardinality(SearchableIn(ListingOf(search[1]))), 200))

\* more than 200 searchable files, and a binary and a hidden one, none
\* matching: 200 files searched
C30_Witness ==
    /\ Len(search) = 2
    /\ search[2].returned
    /\ NoLineMatches(ListingOf(search[1]))
    /\ Cardinality(SearchableIn(ListingOf(search[1]))) > 200
    /\ \E i \in DOMAIN search[1].entries : search[1].entries[i].binary
    /\ \E i \in DOMAIN search[1].entries : search[1].entries[i].parts = "hidden"
    /\ search[2].files_scanned = 200

\* -------------------------------------------------------------------- C31
\* The lines list_directory would give for the depth asked, were there no
\* limit of depth.
ListedInFull ==
    _walk(toolbox[1].tree, toolbox[1].denied_at, toolbox[1].depth, 1)

\* The matching lines of the files grep_files would read, were there no
\* limit of files, among the entries given; the text files around them have
\* none.
RECURSIVE MatchingFrom(_, _)
MatchingFrom(listing, i) ==
    IF i > Len(listing) THEN 0
    ELSE (IF ~Skips(listing[i]) /\ listing[i].readable THEN listing[i].matching ELSE 0)
             + MatchingFrom(listing, i + 1)

\* C31: list_directory, search_files and grep_files enforce their caps and
\* mark truncation: none returns more than 50 entries or matches,
\* list_directory shows no entry deeper than 3 levels, grep_files scans at
\* most 200 files and reads none above 100KB, and the truncation marker ends
\* the output exactly when a cap cut it, that is when it shows less than
\* there is.
C31_CapsAndMarkers ==
    /\ (Len(toolbox) = 2 /\ toolbox[1].name = "list_directory") =>
           /\ Len(toolbox[2].lines) <= 50
           /\ \A i \in DOMAIN toolbox[2].lines : toolbox[2].lines[i].level <= 3
           /\ toolbox[2].marker # <<>> <=> Len(toolbox[2].lines) < Len(ListedInFull)
    /\ (Len(toolbox) = 2 /\ toolbox[1].name = "search_files") =>
           /\ Len(toolbox[2].lines) <= 50
           /\ toolbox[2].marker # <<>> <=>
                  Len(toolbox[2].lines)
                      < Len(SelectSeq(Globbed(toolbox[1].glob), Shown))
    /\ (Len(search) = 2 /\ search[2].returned) =>
           /\ search[2].matches <= 50
           /\ search[2].files_scanned <= 200
           /\ search[2].largest <= 100 * 1024
           /\ EndsWith(search[2].text, TruncatedMatches) <=>
                  search[2].matches < MatchingFrom(search[1].entries, 1)

\* -------------------------------------------------------------------- C32
\* C32: _resolve_safe_path accepts a path argument if and only if its
\* resolution is the working directory or below it name by name: a target
\* in a sibling directory whose name only extends the name of the working
\* directory is refused, and no target in the subtree is.
C32_AcceptsIffInSubtree ==
    (/\ Len(toolbox) = 2
     /\ Called.name = "read_file"
     /\ Called.args.mapping
     /\ PathOf(Called).type = "str") =>
        (resolve_safe_path(PathOf(Called), Cwd).kind = "return"
            <=> InSubtree(PathOf(Called).str, Cwd))

\* -------------------------------------------------------------------- C33
IsToolCallId(id) == id \notin {Nil, Absent}

\* C33: every tool message of the wire list format_messages makes has a
\* string as tool_call_id: the id the canonical message has, and "unknown"
\* where it has none, the id None of a tool call the endpoint gave no id
\* included.
C33_ToolCallIdIsAString ==
    /\ \A j \in DOMAIN requests : \A i \in DOMAIN requests[j].wire :
          requests[j].wire[i].role = "tool" =>
              IsToolCallId(requests[j].wire[i].tool_call_id)
    /\ Len(translation) = 2 =>
          LET call == translation[1]
              sent == translation[2].sent
              shift == Len(sent) - Len(call.messages)
          IN  \A i \in DOMAIN call.messages :
                  call.messages[i].role = "tool" =>
                      /\ sent[i + shift].role = "tool"
                      /\ IsToolCallId(sent[i + shift].tool_call_id)
                      /\ sent[i + shift].tool_call_id =
                            (IF IsToolCallId(call.messages[i].tool_call_id)
                             THEN call.messages[i].tool_call_id
                             ELSE "unknown")

\* -------------------------------------------------------------------- C34
\* C34: LLMManager.generate never raises to its caller and returns a
\* string, whatever the provider hands back (a text, a tool request with
\* any tool-call entries, any other shape, an exception) and whatever the
\* executor does (a result, an exception, no executor given).
C34_NeverRaisesReturnsString ==
    /\ pc # "raised"
    /\ pc = "done" => result # None
    /\ Len(translation) = 2 =>
          /\ translation[2].kind # "raise"
          /\ translation[2].kind = "return" => translation[2].type = "str"

\* -------------------------------------------------------------------- C35
\* C35: generate leaves the message list of its caller as it was given,
\* in length and in elements, however the run goes; the assistant, tool
\* and synthetic user messages are appended to the copy only, which
\* starts with the messages given.
C35_CallersMessagesUnchanged ==
    /\ [][messages' = messages]_vars
    /\ [](pc \notin {"start", "done"} => IsPrefix(messages, conversation))
    /\ [](pc = "done" /\ requests # <<>> => IsPrefix(messages, conversation))

\* generate is over after a round of tool calls: its own list has grown
C35_Witness ==
    /\ pc = "done"
    /\ Len(conversation) > Len(messages) + 1
    /\ messages = <<UserMsg(Query)>>

\* -------------------------------------------------------------------- C36
\* C36: every run of process_query that has initialized the manager
\* eventually runs manager.cleanup, and runs it exactly once, after the
\* last provider call and the last tool execution, however the run ends:
\* with an answer, with an error-flagged result of the loop, or with an
\* exception that leaves generate.  Every run initializes the manager:
\* manager.initialize() catches what the providers raise.
C36_CleanupExactlyOnce ==
    /\ [](cleanups <= 1)
    /\ [](agent \in {"new", "constructed", "initialized"} => cleanups = 0)
    /\ <>(cleanups = 1)
    /\ [](cleanups = 1 => pending = {} /\ agent \in {"returned", "raised"})
    /\ [][cleanups = 1 => requests' = requests /\ executed' = executed
                              /\ outcomes' = outcomes /\ responses' = responses]_vars

\* cleanup has run after the run was interrupted in a tool call
C36_Witness ==
    /\ cleanups = 1
    /\ agent = "raised"
    /\ executed # <<>>
    /\ Len(outcomes) < Len(executed)

====
